---- MODULE Spec2Model ----
(***************************************************************************)
(* Model of the item pipelines of the listings scraper:                    *)
(*   CleanNormalizePipeline (scraper/pipelines/clean_normalize.py)         *)
(*   DedupePipeline         (scraper/pipelines/dedupe.py)                  *)
(*   DatabasePipeline       (scraper/pipelines/database.py)                *)
(*   DatabaseManager        (scraper/db/io.py)                             *)
(*   clean_text             (scraper/spiders/utils/html.py)                *)
(*   is_valid_amenity       (clean_data.py)                                *)
(*                                                                         *)
(* Texts are sequences of one-character strings.  Python's None and a key  *)
(* that is absent from a dict are the two one-element sequences None and   *)
(* Missing, which no text of the model equals.  completeness_score is held *)
(* in twentieths (the code's weights are multiples of 0.5 and the maximum  *)
(* is 10.0), so that 0.05 units are integers.  A number is Num(m, e), the  *)
(* decimal m * 10^-e.                                                      *)
(***************************************************************************)
EXTENDS Integers, Sequences, FiniteSets, TLC

(* ---------------------------------------------------------------- values *)

None == <<"None">>
Missing == <<"Missing">>

\* A number m * 10^-e (an int or float of the code), kept with no trailing
\* zero in its decimals.
Num(m, e) == <<"Num", m, e>>
IsNum(v) == Len(v) = 3 /\ v[1] = "Num"

\* Python truthiness of a dict.get() result: None, '' and 0 are falsy.
Truthy(v) == v # Missing /\ v # None /\ v # <<>> /\ v # Num(0, 0)

\* dict.get(k): None when the key is absent.
Get(d, k) == IF d[k] = Missing THEN None ELSE d[k]

\* dict.get(k, ''): the default only replaces an absent key, not a None.
GetOrEmpty(d, k) == IF d[k] = Missing THEN <<>> ELSE d[k]

IsText(v) == v # Missing /\ v # None /\ ~IsNum(v)

(* ------------------------------------------------------------------ text *)

UpperLetters == <<"A","B","C","D","E","F","G","H","I","J","K","L","M",
                  "N","O","P","Q","R","S","T","U","V","W","X","Y","Z">>
LowerLetters == <<"a","b","c","d","e","f","g","h","i","j","k","l","m",
                  "n","o","p","q","r","s","t","u","v","w","x","y","z">>
Digits == {"0","1","2","3","4","5","6","7","8","9"}
Whitespace == {" ", "\t", "\n"}
Punctuation == {",", ".", "!", "?", ";", ":"}

IndexIn(c, letters) == CHOOSE i \in 1..Len(letters) : letters[i] = c
IsUpper(c) == \E i \in 1..Len(UpperLetters) : UpperLetters[i] = c
IsLower(c) == \E i \in 1..Len(LowerLetters) : LowerLetters[i] = c
LowerChar(c) == IF IsUpper(c) THEN LowerLetters[IndexIn(c, UpperLetters)] ELSE c
UpperChar(c) == IF IsLower(c) THEN UpperLetters[IndexIn(c, LowerLetters)] ELSE c
IsAlnum(c) == IsUpper(c) \/ IsLower(c) \/ c \in Digits

\* str.lower()
Lower(s) == [i \in 1..Len(s) |-> LowerChar(s[i])]

RECURSIVE LStrip(_)
LStrip(s) == IF s # <<>> /\ Head(s) \in Whitespace THEN LStrip(Tail(s)) ELSE s

RECURSIVE RStrip(_)
RStrip(s) ==
  IF s # <<>> /\ s[Len(s)] \in Whitespace THEN RStrip(SubSeq(s, 1, Len(s) - 1)) ELSE s

\* str.strip()
Strip(s) == RStrip(LStrip(s))

\* re.sub(r'\s+', ' ', s): every run of whitespace becomes one space.
RECURSIVE CollapseWhitespace(_)
CollapseWhitespace(s) ==
  IF s = <<>> THEN <<>>
  ELSE IF Head(s) \in Whitespace
       THEN <<" ">> \o CollapseWhitespace(LStrip(s))
       ELSE <<Head(s)>> \o CollapseWhitespace(Tail(s))

\* re.sub(r'\s+([,.!?;:])', r'\1', s): whitespace right before punctuation goes.
RECURSIVE DropSpaceBeforePunctuation(_)
DropSpaceBeforePunctuation(s) ==
  IF s = <<>> THEN <<>>
  ELSE IF Head(s) \in Whitespace
          /\ LStrip(s) # <<>> /\ Head(LStrip(s)) \in Punctuation
       THEN <<Head(LStrip(s))>> \o DropSpaceBeforePunctuation(Tail(LStrip(s)))
       ELSE <<Head(s)>> \o DropSpaceBeforePunctuation(Tail(s))

\* CleanNormalizePipeline._clean_text
CleanText(text) ==
  IF ~Truthy(text) THEN <<>>
  ELSE DropSpaceBeforePunctuation(CollapseWhitespace(Strip(text)))

\* The length of the longest run of [a-zA-Z0-9#] of s that starts at i.
RECURSIVE EntityRun(_, _)
EntityRun(s, i) ==
  IF i <= Len(s) /\ (IsAlnum(s[i]) \/ s[i] = "#") THEN 1 + EntityRun(s, i + 1) ELSE 0

\* re.sub(r'&[a-zA-Z0-9#]+;', ' ', s): every HTML entity becomes one space.
RECURSIVE ReplaceEntities(_)
ReplaceEntities(s) ==
  IF s = <<>> THEN <<>>
  ELSE LET n == EntityRun(s, 2) IN
       IF Head(s) = "&" /\ n >= 1 /\ n + 2 <= Len(s) /\ s[n + 2] = ";"
       THEN <<" ">> \o ReplaceEntities(SubSeq(s, n + 3, Len(s)))
       ELSE <<Head(s)>> \o ReplaceEntities(Tail(s))

\* spiders/utils/html.clean_text
HtmlCleanText(text) ==
  IF ~Truthy(text) THEN <<>>
  ELSE ReplaceEntities(CollapseWhitespace(Strip(text)))

\* str.split(): the whitespace-delimited words of s.
RECURSIVE TakeWord(_)
TakeWord(s) ==
  IF s = <<>> \/ Head(s) \in Whitespace THEN <<>> ELSE <<Head(s)>> \o TakeWord(Tail(s))

RECURSIVE Split(_)
Split(s) ==
  LET t == LStrip(s) IN
  IF t = <<>> THEN <<>>
  ELSE <<TakeWord(t)>> \o Split(SubSeq(t, Len(TakeWord(t)) + 1, Len(t)))

\* ' '.join(words)
RECURSIVE Join(_)
Join(words) ==
  IF words = <<>> THEN <<>>
  ELSE IF Len(words) = 1 THEN words[1]
  ELSE words[1] \o <<" ">> \o Join(Tail(words))

\* filter(None, components): the non-empty components, in order.
RECURSIVE FilterNonEmpty(_)
FilterNonEmpty(words) ==
  IF words = <<>> THEN <<>>
  ELSE IF Head(words) = <<>> THEN FilterNonEmpty(Tail(words))
  ELSE <<Head(words)>> \o FilterNonEmpty(Tail(words))

\* str.capitalize(): first character upper-cased, the rest lower-cased.
Capitalize(w) ==
  [i \in 1..Len(w) |-> IF i = 1 THEN UpperChar(w[i]) ELSE LowerChar(w[i])]

StopWords == { <<"o","f">>, <<"t","h","e">>, <<"a","n","d">>, <<"i","n">>,
               <<"o","n">>, <<"a","t">>, <<"t","o">>, <<"f","o","r">>,
               <<"w","i","t","h">>, <<"b","y">> }

\* CleanNormalizePipeline._clean_address
CleanAddress(address) ==
  IF ~Truthy(address) THEN <<>>
  ELSE LET words == Split(CleanText(address)) IN
       Join([i \in 1..Len(words) |->
               IF Lower(words[i]) \in StopWords THEN Lower(words[i])
               ELSE Capitalize(words[i])])

\* The scheme prefixes are single tokens of a URL text.
HttpPrefixes == {"http://", "https://"}

\* CleanNormalizePipeline._clean_url
CleanUrl(url) ==
  IF ~Truthy(url) THEN <<>>
  ELSE LET u == Strip(url) IN
       IF u # <<>> /\ Head(u) \in HttpPrefixes THEN u ELSE <<"https://">> \o u

\* s[i..] starts with the keyword k
StartsWithAt(s, k, i) ==
  /\ i + Len(k) - 1 <= Len(s)
  /\ \A j \in 1..Len(k) : s[i + j - 1] = k[j]

\* Python's `k in s` on strings.
IsSubstring(k, s) == \E i \in 1..(Len(s) + 1) : StartsWithAt(s, k, i)

(* ------------------------------------------------------------- slugify *)

\* python-slugify removes a comma that stands between two digits.
RECURSIVE RemoveDigitCommas(_)
RemoveDigitCommas(s) ==
  IF Len(s) < 3 THEN s
  ELSE IF s[1] \in Digits /\ s[2] = "," /\ s[3] \in Digits
       THEN <<s[1]>> \o RemoveDigitCommas(SubSeq(s, 3, Len(s)))
       ELSE <<s[1]>> \o RemoveDigitCommas(Tail(s))

SlugAllowed(c) == IsLower(c) \/ c \in Digits \/ c = "-"

RECURSIVE CollapseHyphens(_)
CollapseHyphens(s) ==
  IF Len(s) < 2 THEN s
  ELSE IF s[1] = "-" /\ s[2] = "-" THEN CollapseHyphens(Tail(s))
  ELSE <<s[1]>> \o CollapseHyphens(Tail(s))

RECURSIVE StripHyphens(_)
StripHyphens(s) ==
  IF s # <<>> /\ Head(s) = "-" THEN StripHyphens(Tail(s))
  ELSE IF s # <<>> /\ s[Len(s)] = "-" THEN StripHyphens(SubSeq(s, 1, Len(s) - 1))
  ELSE s

\* slugify(text): lower-case, every run of characters outside [-a-z0-9]
\* becomes one hyphen, hyphen runs collapse, outer hyphens are removed.
Slugify(text) ==
  LET low == RemoveDigitCommas(Lower(text))
      sep == [i \in 1..Len(low) |-> IF SlugAllowed(low[i]) THEN low[i] ELSE "-"]
  IN  StripHyphens(CollapseHyphens(sep))

(* -------------------------------------------------------- project dicts *)

\* The columns of the Project model that a record can set (valid_fields of
\* clean_project_data_for_db without completeness_score, which the model
\* carries beside the dict as an integer).
ModelColumns == {"name", "developer_name", "brand_flag", "property_type", "status",
                 "country", "city", "address", "latitude", "longitude",
                 "est_completion", "website_url", "inquiry_url", "contact_email",
                 "description"}

\* The keys a scraped project dict may carry: the columns, and the two keys
\* extract_contact_info produces that are no columns.
ProjectKeys == ModelColumns \cup {"email", "phone"}

NoScore == -1

EmptyProject == [k \in ProjectKeys |-> Missing]

\* One component of the canonical key: `(d.get(k, '') or '')`, then
\* `str(v).strip() if v else ''`.
KeyComponent(project_data, k) ==
  IF Truthy(project_data[k]) THEN Strip(project_data[k]) ELSE <<>>

\* A plausible slip: the raw joined string is returned without slugify.
GenerateProjectKey_NoSlug(project_data) ==
  Join(FilterNonEmpty(<< KeyComponent(project_data, "name"),
                         KeyComponent(project_data, "developer_name"),
                         KeyComponent(project_data, "city"),
                         KeyComponent(project_data, "country") >>))

\* DedupePipeline._generate_project_key
GenerateProjectKey(project_data) ==
  Slugify(Join(FilterNonEmpty(<< KeyComponent(project_data, "name"),
                                 KeyComponent(project_data, "developer_name"),
                                 KeyComponent(project_data, "city"),
                                 KeyComponent(project_data, "country") >>)))

(* ---------------------------------------------------------------- score *)

\* Weights in twentieths of the full score: 2.0 of max_score 10.0 is 4/20.
Weight(present, w) == IF present THEN w ELSE 0

\* A plausible slip: contact_email and inquiry_url are weighted separately.
ComputeCompletenessScore_SplitContact(d) ==
  LET sum == Weight(Truthy(d["name"]), 4) + Weight(Truthy(d["city"]), 2)
           + Weight(Truthy(d["country"]), 2) + Weight(Truthy(d["website_url"]), 2)
           + Weight(Truthy(d["developer_name"]), 1) + Weight(Truthy(d["address"]), 1)
           + Weight(Truthy(d["description"]), 1)
           + Weight(Truthy(d["contact_email"]), 1) + Weight(Truthy(d["inquiry_url"]), 1)
           + Weight(Truthy(d["est_completion"]), 1) + Weight(Truthy(d["status"]), 1)
  IN  IF sum < 20 THEN sum ELSE 20

\* DatabasePipeline.compute_completeness_score, in twentieths:
\* min(score / max_score, 1.0) with max_score = 10.0.
ComputeCompletenessScore(d) ==
  LET sum == Weight(Truthy(d["name"]), 4) + Weight(Truthy(d["city"]), 2)
           + Weight(Truthy(d["country"]), 2) + Weight(Truthy(d["website_url"]), 2)
           + Weight(Truthy(d["developer_name"]), 1) + Weight(Truthy(d["address"]), 1)
           + Weight(Truthy(d["description"]), 1)
           + Weight(Truthy(d["contact_email"]) \/ Truthy(d["inquiry_url"]), 1)
           + Weight(Truthy(d["est_completion"]), 1) + Weight(Truthy(d["status"]), 1)
  IN  IF sum < 20 THEN sum ELSE 20

(* ------------------------------------------------------- clean stage *)

\* A truthy value that is no str (a number, a list): the cleaners pass it
\* through their isinstance(value, str) test, and a str method applied to it
\* raises.
NonText == <<"NonText">>

\* status_mappings of config.yaml, in file order: keyword -> canonical status.
StatusMappings ==
  << [key |-> <<"p","r","e","-","c","o","n","s","t","r","u","c","t","i","o","n">>,
      value |-> <<"planned">>],
     [key |-> <<"u","n","d","e","r"," ","c","o","n","s","t","r","u","c","t","i","o","n">>,
      value |-> <<"under_construction">>],
     [key |-> <<"c","o","m","p","l","e","t","e","d">>,
      value |-> <<"completed">>] >>

\* A plausible slip: the loop does not return at the first match, so that the
\* last matching entry wins.
NormalizeStatus_LastMatch(status) ==
  IF ~Truthy(status) THEN <<"unknown">>
  ELSE LET status_lower == Strip(Lower(status))
           hits == {i \in 1..Len(StatusMappings) :
                      IsSubstring(Lower(StatusMappings[i].key), status_lower)}
       IN  IF hits = {} THEN <<"unknown">>
           ELSE StatusMappings[CHOOSE i \in hits : \A j \in hits : i >= j].value

\* CleanNormalizePipeline._normalize_status
NormalizeStatus(status) ==
  IF ~Truthy(status) THEN <<"unknown">>
  ELSE LET status_lower == Strip(Lower(status))
           hits == {i \in 1..Len(StatusMappings) :
                      IsSubstring(Lower(StatusMappings[i].key), status_lower)}
       IN  IF hits = {} THEN <<"unknown">>
           ELSE StatusMappings[CHOOSE i \in hits : \A j \in hits : i <= j].value

\* The loop shared by _clean_project, _clean_unit and _clean_media_link:
\* None stays None, a str is text-cleaned, anything else is kept.
CleanValue(value) ==
  IF value = Missing \/ value = None \/ value = NonText \/ IsNum(value) THEN value
  ELSE CleanText(value)

\* _clean_project raises when a str method meets a non-str status, address
\* or website_url (AttributeError / TypeError).
CleanProjectRaises(project) ==
  \E k \in {"status", "address", "website_url"} : project[k] = NonText

\* CleanNormalizePipeline._clean_project
CleanProject(project) ==
  LET cleaned == [k \in ProjectKeys |-> CleanValue(project[k])] IN
  [k \in ProjectKeys |->
     IF k = "status" /\ Truthy(cleaned[k]) THEN NormalizeStatus(cleaned[k])
     ELSE IF k = "address" /\ Truthy(cleaned[k]) THEN CleanAddress(cleaned[k])
     ELSE IF k = "website_url" /\ Truthy(cleaned[k]) THEN CleanUrl(cleaned[k])
     ELSE cleaned[k]]

(* ------------------------------------------------------------ parsers *)

DigitChars == <<"0","1","2","3","4","5","6","7","8","9">>

DigitValue(c) == (CHOOSE i \in 1..10 : DigitChars[i] = c) - 1

\* int() of a run of digits; 0 for the empty run.
RECURSIVE DigitsToInt(_)
DigitsToInt(s) ==
  IF s = <<>> THEN 0
  ELSE DigitsToInt(SubSeq(s, 1, Len(s) - 1)) * 10 + DigitValue(s[Len(s)])

RECURSIVE Pow10(_)
Pow10(n) == IF n = 0 THEN 1 ELSE 10 * Pow10(n - 1)

\* float() of a decimal literal: trailing zeros of the decimals do not count.
RECURSIVE Normalise(_, _)
Normalise(m, e) == IF e > 0 /\ m % 10 = 0 THEN Normalise(m \div 10, e - 1) ELSE Num(m, e)

\* The length of the longest run of digits of s that starts at i (\d+, greedy).
RECURSIVE DigitRun(_, _)
DigitRun(s, i) == IF i <= Len(s) /\ s[i] \in Digits THEN 1 + DigitRun(s, i + 1) ELSE 0

\* str.replace(k, ''): every occurrence of k, left to right.
RECURSIVE RemoveAll(_, _)
RemoveAll(s, k) ==
  IF s = <<>> THEN <<>>
  ELSE IF StartsWithAt(s, k, 1) THEN RemoveAll(SubSeq(s, Len(k) + 1, Len(s)), k)
  ELSE <<Head(s)>> \o RemoveAll(Tail(s), k)

\* The length of (?:\.\d+)? at i.
DecimalsAt(s, i) == IF i <= Len(s) /\ s[i] = "." THEN DigitRun(s, i + 1) ELSE 0

\* float(re.search(r'(\d+(?:\.\d+)?)', s).group(1)); None when nothing matches.
SearchNumber(s) ==
  LET starts == {i \in 1..Len(s) : s[i] \in Digits} IN
  IF starts = {} THEN None
  ELSE LET i == CHOOSE x \in starts : \A y \in starts : x <= y
           j == i + DigitRun(s, i)
           f == DecimalsAt(s, j)
       IN  Normalise(DigitsToInt(SubSeq(s, i, j - 1)) * Pow10(f)
                       + DigitsToInt(SubSeq(s, j + 1, j + f)), f)

\* The length of (?:,\d{3})* at i.
RECURSIVE GroupsAt(_, _)
GroupsAt(s, i) ==
  IF i + 3 <= Len(s) /\ s[i] = "," /\ \A d \in 1..3 : s[i + d] \in Digits
  THEN 4 + GroupsAt(s, i + 4) ELSE 0

\* float(re.search(r'(\d+(?:,\d{3})*(?:\.\d+)?)', s).group(1).replace(',', ''))
SearchPrice(s) ==
  LET starts == {i \in 1..Len(s) : s[i] \in Digits} IN
  IF starts = {} THEN None
  ELSE LET i == CHOOSE x \in starts : \A y \in starts : x <= y
           j == i + DigitRun(s, i)
           g == j + GroupsAt(s, j)
           f == DecimalsAt(s, g)
       IN  Normalise(DigitsToInt(RemoveAll(SubSeq(s, i, g - 1), <<",">>)) * Pow10(f)
                       + DigitsToInt(SubSeq(s, g + 1, g + f)), f)

\* CleanNormalizePipeline._parse_size
ParseSize(size_text) ==
  IF IsNum(size_text) THEN size_text
  ELSE IF ~Truthy(size_text) THEN None
  ELSE SearchNumber(Strip(RemoveAll(size_text, <<",">>)))

\* CleanNormalizePipeline._parse_bedrooms
ParseBedrooms(bedrooms_text) ==
  IF IsNum(bedrooms_text) THEN bedrooms_text
  ELSE IF ~Truthy(bedrooms_text) THEN None
  ELSE LET t == Strip(Lower(bedrooms_text)) IN
       IF IsSubstring(<<"s","t","u","d","i","o">>, t) THEN Num(0, 0) ELSE SearchNumber(t)

\* CleanNormalizePipeline._parse_bathrooms
ParseBathrooms(bathrooms_text) ==
  IF IsNum(bathrooms_text) THEN bathrooms_text
  ELSE IF ~Truthy(bathrooms_text) THEN None
  ELSE SearchNumber(bathrooms_text)

\* currency_symbols of config.yaml, in file order: symbol -> ISO code.
CurrencySymbols ==
  << [symbol |-> <<"$">>, iso_code |-> <<"U","S","D">>],
     [symbol |-> <<"£">>, iso_code |-> <<"G","B","P">>],
     [symbol |-> <<"A","E","D">>, iso_code |-> <<"A","E","D">>],
     [symbol |-> <<"S","$">>, iso_code |-> <<"S","G","D">>] >>

USD == <<"U","S","D">>
NoteFrom == <<"F","r","o","m">>
NotePriceOnRequest == <<"P","r","i","c","e"," ","o","n"," ","r","e","q","u","e","s","t">>

\* The None that _parse_price returns, as a triple that was not found.
NoPrice == [found |-> FALSE, value |-> None, currency |-> None, note |-> None]

\* CleanNormalizePipeline._parse_price
ParsePrice(price_text) ==
  IF IsNum(price_text)
  THEN [found |-> TRUE, value |-> price_text, currency |-> USD, note |-> None]
  ELSE IF ~Truthy(price_text) THEN NoPrice
  ELSE
    LET stripped == Strip(price_text)
        hits == {i \in 1..Len(CurrencySymbols) :
                   IsSubstring(CurrencySymbols[i].symbol, stripped)}
        first == IF hits = {} THEN 0 ELSE CHOOSE i \in hits : \A j \in hits : i <= j
        currency == IF first = 0 THEN None ELSE CurrencySymbols[first].iso_code
        text == IF first = 0 THEN stripped
                ELSE Strip(RemoveAll(stripped, CurrencySymbols[first].symbol))
        lower == Lower(text)
        has_from == IsSubstring(<<"f","r","o","m">>, lower)
        on_request == /\ ~has_from
                      /\ \/ IsSubstring(<<"r","e","q","u","e","s","t">>, lower)
                         \/ IsSubstring(<<"c","o","n","t","a","c","t">>, lower)
        value == IF on_request THEN None ELSE SearchPrice(text)
        note == IF has_from THEN NoteFrom
                ELSE IF on_request THEN NotePriceOnRequest ELSE None
    IN  IF value = None /\ currency = None THEN NoPrice
        ELSE [found |-> TRUE, value |-> value,
              currency |-> IF currency = None THEN USD ELSE currency, note |-> note]

\* The keys of a unit dict the model carries.
UnitKeys == {"unit_name", "bedrooms", "bathrooms", "size_sqft", "size_sqm",
             "price_local_value", "price_local_currency", "price_note"}

EmptyUnit == [k \in UnitKeys |-> Missing]

\* CleanNormalizePipeline._clean_unit: a parser is called on a truthy value
\* only; the price triple is written only when _parse_price returned a dict.
CleanUnit(unit) ==
  LET cleaned == [k \in UnitKeys |-> CleanValue(unit[k])]
      price_data == IF Truthy(cleaned["price_local_value"])
                    THEN ParsePrice(cleaned["price_local_value"]) ELSE NoPrice
  IN  [k \in UnitKeys |->
         IF k \in {"size_sqft", "size_sqm"} /\ Truthy(cleaned[k]) THEN ParseSize(cleaned[k])
         ELSE IF k = "bedrooms" /\ Truthy(cleaned[k]) THEN ParseBedrooms(cleaned[k])
         ELSE IF k = "bathrooms" /\ Truthy(cleaned[k]) THEN ParseBathrooms(cleaned[k])
         ELSE IF k = "price_local_value" /\ price_data.found THEN price_data.value
         ELSE IF k = "price_local_currency" /\ price_data.found THEN price_data.currency
         ELSE IF k = "price_note" /\ price_data.found THEN price_data.note
         ELSE cleaned[k]]

\* CleanNormalizePipeline._clean_amenity
CleanAmenity(amenity) == IF ~Truthy(amenity) THEN <<>> ELSE CleanText(amenity)

IsLetter(c) == IsUpper(c) \/ IsLower(c)

\* re.match(r'^[A-Za-z]+@[A-Za-z]+\.[A-Za-z]+$', s)
IsEmailShape(s) ==
  \E i, j \in 1..Len(s) :
     /\ 1 < i /\ i + 1 < j /\ j < Len(s)
     /\ s[i] = "@" /\ s[j] = "."
     /\ \A n \in 1..Len(s) : n \notin {i, j} => IsLetter(s[n])

\* re.match(r'^<[^>]+>$', s)
IsSingleTag(s) ==
  /\ Len(s) >= 3 /\ Head(s) = "<" /\ s[Len(s)] = ">"
  /\ \A n \in 2..(Len(s) - 1) : s[n] # ">"

\* DataCleaner.is_valid_amenity (clean_data.py): the invalid patterns, then
\* the length check, on the trimmed text.  A scheme of HttpPrefixes stands at
\* the head of a URL as one element.
IsValidAmenity(amenity) ==
  /\ Truthy(amenity) /\ IsText(amenity) /\ amenity # NonText
  /\ LET a == Strip(amenity) IN
     /\ ~(Len(a) = 1 /\ a[1] \in {"»", "«"})
     /\ ~IsEmailShape(a)
     /\ ~(a # <<>> /\ Head(a) \in HttpPrefixes)
     /\ ~IsSingleTag(a)
     /\ ~(a # <<>> /\ \A n \in 1..Len(a) : a[n] \in Digits)
     /\ \E n \in 1..Len(a) : IsLetter(a[n])
     /\ Len(a) >= 2 /\ Len(a) <= 100

\* DataCleaner.contains_html: re.search(r'<[^>]+>', text); [^>] matches a
\* line break too.
ContainsHtml(text) ==
  /\ Truthy(text) /\ IsText(text) /\ text # NonText
  /\ \E i \in 1..Len(text) :
       /\ text[i] = "<" /\ i + 1 <= Len(text) /\ text[i + 1] # ">"
       /\ \E j \in (i + 2)..Len(text) : text[j] = ">"

\* Where the match of '<.*?>' that starts at the head of s ends, 0 if there
\* is none: the first '>' with no line break before it ('.' matches none).
TagEnd(s) ==
  LET ends == {j \in 2..Len(s) : s[j] = ">" /\ \A n \in 2..(j - 1) : s[n] # "\n"}
  IN  IF s = <<>> \/ Head(s) # "<" \/ ends = {} THEN 0
      ELSE CHOOSE j \in ends : \A n \in ends : j <= n

\* re.sub('<.*?>', '', s)
RECURSIVE RemoveTags(_)
RemoveTags(s) ==
  IF s = <<>> THEN <<>>
  ELSE IF TagEnd(s) # 0 THEN RemoveTags(SubSeq(s, TagEnd(s) + 1, Len(s)))
  ELSE <<Head(s)>> \o RemoveTags(Tail(s))

\* DataCleaner.strip_html
StripHtml(text) ==
  IF ~Truthy(text) THEN text ELSE Strip(CollapseWhitespace(RemoveTags(text)))

\* A plausible slip: the stripped form is stored without asking whether it
\* is a valid amenity.
CleanAmenityRow_StoreStripped(row) ==
  IF ~IsValidAmenity(row.data) THEN [remove |-> TRUE, row |-> row]
  ELSE IF ContainsHtml(row.data)
       THEN [remove |-> FALSE, row |-> [row EXCEPT !.data = StripHtml(row.data)]]
       ELSE [remove |-> FALSE, row |-> row]

\* One pass of the loop of DataCleaner.clean_amenities over a row: whether the
\* row goes to amenities_to_remove, and the row as the loop leaves it.
CleanAmenityRow(row) ==
  IF ~IsValidAmenity(row.data) THEN [remove |-> TRUE, row |-> row]
  ELSE IF ContainsHtml(row.data)
       THEN IF IsValidAmenity(StripHtml(row.data))
            THEN [remove |-> FALSE, row |-> [row EXCEPT !.data = StripHtml(row.data)]]
            ELSE [remove |-> TRUE, row |-> row]
       ELSE [remove |-> FALSE, row |-> row]

\* DataCleaner.clean_amenities: the loop, the deletes and the one commit; an
\* exception is caught, rolled back and printed, and leaves the table as it was.
CleanAmenities(table, fails) ==
  LET visited == [i \in 1..Len(table) |-> CleanAmenityRow(table[i])]
      left == SelectSeq(visited, LAMBDA v : ~v.remove)
  IN  IF fails THEN table ELSE [i \in 1..Len(left) |-> left[i].row]

MediaKeys == {"type", "url", "caption"}

\* CleanNormalizePipeline._clean_media_link
CleanMediaLink(media) ==
  LET cleaned == [k \in MediaKeys |-> CleanValue(media[k])] IN
  [k \in MediaKeys |->
     IF k = "url" /\ Truthy(cleaned[k]) THEN CleanUrl(cleaned[k]) ELSE cleaned[k]]

CleanMediaLinkRaises(media) == media["url"] = NonText

(* --------------------------------------------------------------- store *)

\* SQL `column = value` as SQLAlchemy renders it: `column IS NULL` for a
\* None argument; otherwise a NULL column equals nothing, and text compares
\* exactly (SQLite's default BINARY collation is case-sensitive).
ColumnEquals(column, value) ==
  IF value = None THEN column = None ELSE column # None /\ column = value

\* The rows that satisfy the filters of get_project_by_key.
MatchingProjects(rows, name, developer_name, city, country, website_url) ==
  {i \in 1..Len(rows) :
     /\ ColumnEquals(rows[i].f["name"], name)
     /\ ColumnEquals(rows[i].f["developer_name"], developer_name)
     /\ ColumnEquals(rows[i].f["city"], city)
     /\ ColumnEquals(rows[i].f["country"], country)
     /\ (Truthy(website_url) => ColumnEquals(rows[i].f["website_url"], website_url))}

\* DatabaseManager.get_project_by_key: query.first(), the matching row of
\* lowest id; 0 stands for None.
GetProjectByKey(rows, name, developer_name, city, country, website_url) ==
  LET hits == MatchingProjects(rows, name, developer_name, city, country, website_url)
  IN  IF hits = {} THEN 0 ELSE CHOOSE i \in hits : \A j \in hits : i <= j

\* Project(**project_data): a column whose key is absent is NULL.
NewProjectRow(id, project_data, score) ==
  [id |-> id, f |-> [c \in ModelColumns |-> Get(project_data, c)],
   completeness_score |-> score]

\* DatabaseManager.upsert_project.  `raised` tells whether the call raised.
\* On the existing branch the instance returned by get_project_by_key belongs
\* to the session that get_project_by_key has closed: the setattr calls change
\* a detached object, this session's commit writes nothing, and
\* session.refresh(project) raises because the instance is not persistent in
\* this session; the except clause rolls back and re-raises.  A project_data
\* without 'name' raises KeyError, and a None name violates nullable=False.
UpsertProject(rows, project_data, score, fails) ==
  LET existing == GetProjectByKey(rows, project_data["name"],
                                  GetOrEmpty(project_data, "developer_name"),
                                  GetOrEmpty(project_data, "city"),
                                  GetOrEmpty(project_data, "country"),
                                  Get(project_data, "website_url"))
  IN  IF fails \/ ~IsText(project_data["name"]) \/ existing # 0
      THEN [rows |-> rows, id |-> 0, raised |-> TRUE]
      ELSE [rows |-> Append(rows, NewProjectRow(Len(rows) + 1, project_data, score)),
            id |-> Len(rows) + 1, raised |-> FALSE]

\* A plausible slip: a None (or absent) incoming value is written too.
MergeValue_Overwrite(stored, incoming) ==
  IF incoming = Missing THEN None ELSE incoming

\* update_project, one attribute: `if hasattr(project, key) and value is not
\* None: setattr(project, key, value)`; an absent key is never visited.
MergeValue(stored, incoming) ==
  IF incoming = Missing \/ incoming = None THEN stored ELSE incoming

\* DatabasePipeline.update_project after its score line: the merge loop over
\* project_data.items() (which holds completeness_score, never None), commit.
UpdateProject(rows, project_id, project_data, score, fails) ==
  IF project_id \notin 1..Len(rows) \/ fails
  THEN [rows |-> rows, id |-> 0, raised |-> TRUE]
  ELSE [rows |-> [rows EXCEPT ![project_id] =
                    [id |-> project_id,
                     f |-> [c \in ModelColumns |-> MergeValue(@.f[c], project_data[c])],
                     completeness_score |-> score]],
        id |-> project_id, raised |-> FALSE]

\* DatabasePipeline.clean_project_data_for_db: 'email' replaces contact_email
\* (pop), 'phone' is removed, only the model's columns are kept.
CleanProjectDataForDb(project_data) ==
  [k \in ProjectKeys |->
     IF k = "contact_email" /\ project_data["email"] # Missing THEN project_data["email"]
     ELSE IF k \in ModelColumns THEN project_data[k]
     ELSE Missing]

\* DatabasePipeline.create_project: the score is computed from project_data
\* before clean_project_data_for_db maps 'email'.
CreateProject(rows, project_data, fails) ==
  UpsertProject(rows, CleanProjectDataForDb(project_data),
                ComputeCompletenessScore(project_data), fails)

\* The score update_project writes: computed from the incoming project_data.
UpdateScore(project_data) == ComputeCompletenessScore(project_data)

\* The elements of data that session.add has put into the session when the
\* call fails at step k: building the k-th element raises (k <= Len(data)), or
\* session.commit() does (k = Len(data) + 1); k = 0 is a call that does not fail.
PendingRows(project_id, data, k) ==
  [i \in 1..(IF k = 0 \/ k > Len(data) THEN Len(data) ELSE k - 1) |->
     [project_id |-> project_id, data |-> data[i]]]

\* A plausible slip: a commit after every session.add, so that the elements
\* before the failing one stay.
AddRowsAt_CommitEach(table, project_id, data, k) ==
  [table |-> table \o PendingRows(project_id, data, k), raised |-> k # 0]

\* The loop of add_units / add_amenities / add_media_links (and the one element
\* of add_source) in its one session: commit writes the pending elements, the
\* except clause's rollback discards them.
AddRowsAt(table, project_id, data, k) ==
  IF k # 0 THEN [table |-> table, raised |-> TRUE]
  ELSE [table |-> table \o PendingRows(project_id, data, k), raised |-> FALSE]

\* add_units / add_amenities / add_media_links: every element is added to one
\* session and committed once; a failure rolls the session back and raises.
AddRows(table, project_id, data, fails) ==
  AddRowsAt(table, project_id, data, IF fails THEN Len(data) + 1 ELSE 0)

(* ------------------------------------------------------------- stages *)

\* The except clause of CleanNormalizePipeline.process_item: whatever the body
\* raised leaves the stage as DropItem.
CleanOutcome(raised) == IF raised = "none" THEN "return" ELSE "DropItem"

\* The except clause of DedupePipeline.process_item (DropItem is an
\* Exception too: the duplicate's DropItem is caught and raised again).
DedupeOutcome(raised) == IF raised = "none" THEN "return" ELSE "DropItem"

\* A plausible slip: `except DropItem` instead of `except Exception`.
DatabaseOutcome_OnlyDropItem(raised) == IF raised = "none" THEN "return" ELSE raised

\* The except clause of DatabasePipeline.process_item.
DatabaseOutcome(raised) == IF raised = "none" THEN "return" ELSE "DropItem"

\* How the except clause of each process_item reports what it caught:
\* logger.error("Error in ... pipeline") and a DropItem whose message is
\* "<stage> failed: <what was raised>".  A DropItem raised inside the try block
\* is an Exception and is reported the same way.
CleanReport(raised) == IF raised = "none" THEN "none" ELSE "error"
DedupeReport(raised) == IF raised = "none" THEN "none" ELSE "error"
DatabaseReport(raised) == IF raised = "none" THEN "none" ELSE "error"

\* The body of CleanNormalizePipeline.process_item.
CleanStage(it) ==
  IF CleanProjectRaises(it.project)
     \/ \E i \in 1..Len(it.media_links) : CleanMediaLinkRaises(it.media_links[i])
  THEN [item |-> it, raised |-> "Exception", msg |-> "Cleaning failed"]
  ELSE [item |-> [it EXCEPT
                    !.project = CleanProject(it.project),
                    !.units = [i \in 1..Len(it.units) |-> CleanUnit(it.units[i])],
                    !.amenities = [i \in 1..Len(it.amenities) |-> CleanAmenity(it.amenities[i])],
                    !.media_links = [i \in 1..Len(it.media_links) |->
                                       CleanMediaLink(it.media_links[i])]],
        raised |-> "none", msg |-> "none"]

\* A plausible slip: the key is never recorded.
AddProcessedKey_Skip(keys, key) == keys

\* self.processed_keys.add(project_key)
AddProcessedKey(keys, key) == keys \cup {key}

\* DedupePipeline._check_existing_project: an exception of the lookup is
\* logged as a warning and None (0) is returned.
CheckExistingProject(rows, project_data, lookup_fails) ==
  IF lookup_fails THEN 0
  ELSE GetProjectByKey(rows, GetOrEmpty(project_data, "name"),
                       GetOrEmpty(project_data, "developer_name"),
                       GetOrEmpty(project_data, "city"),
                       GetOrEmpty(project_data, "country"),
                       Get(project_data, "website_url"))

\* The body of DedupePipeline.process_item.
DedupeStage(it, keys, rows, lookup_fails) ==
  LET project_key == GenerateProjectKey(it.project)
      existing == CheckExistingProject(rows, it.project, lookup_fails)
  IN  IF project_key \in keys
      THEN [item |-> it, keys |-> keys, raised |-> "DropItem",
            msg |-> "Duplicate project", warning |-> FALSE]
      ELSE [item |-> [it EXCEPT !._is_update = (existing # 0),
                                !._existing_project_id = existing],
            keys |-> AddProcessedKey(keys, project_key), raised |-> "none",
            msg |-> "none", warning |-> lookup_fails]

ZeroStats ==
  [projects_processed |-> 0, projects_created |-> 0, projects_updated |-> 0,
   units_created |-> 0, amenities_created |-> 0, media_links_created |-> 0,
   sources_created |-> 0]

\* Lines 46-56 of DatabasePipeline.process_item: the parent write and its
\* two counters.  ctx is [store, stats, raised, msg, project_id].
WriteParent(ctx, it, fault) ==
  LET is_update == it._is_update /\ it._existing_project_id # 0
      r == IF is_update
           THEN UpdateProject(ctx.store.projects, it._existing_project_id, it.project,
                              UpdateScore(it.project), fault = "parent")
           ELSE CreateProject(ctx.store.projects, it.project, fault = "parent")
  IN  IF r.raised
      THEN [ctx EXCEPT !.raised = "Exception", !.msg = "store error"]
      ELSE [ctx EXCEPT !.store.projects = r.rows,
                       !.project_id = r.id,
                       !.stats.projects_updated = IF is_update THEN @ + 1 ELSE @,
                       !.stats.projects_created = IF is_update THEN @ ELSE @ + 1,
                       !.stats.projects_processed = @ + 1]

\* A plausible slip: the units go under the id the dedupe stage left on the
\* item (None, here 0, on the new branch) instead of project.id.
WriteUnits_ExistingId(ctx, it, fault) ==
  IF ctx.raised # "none" \/ it.units = <<>> THEN ctx
  ELSE LET r == AddRows(ctx.store.units, it._existing_project_id, it.units,
                        fault = "units") IN
       IF r.raised THEN [ctx EXCEPT !.raised = "Exception", !.msg = "store error"]
       ELSE [ctx EXCEPT !.store.units = r.table,
                        !.stats.units_created = @ + Len(it.units)]

\* Lines 58-61: add_units and its counter.
WriteUnits(ctx, it, fault) ==
  IF ctx.raised # "none" \/ it.units = <<>> THEN ctx
  ELSE LET r == AddRows(ctx.store.units, ctx.project_id, it.units, fault = "units") IN
       IF r.raised THEN [ctx EXCEPT !.raised = "Exception", !.msg = "store error"]
       ELSE [ctx EXCEPT !.store.units = r.table,
                        !.stats.units_created = @ + Len(it.units)]

\* Lines 63-66: add_amenities and its counter.
WriteAmenities(ctx, it, fault) ==
  IF ctx.raised # "none" \/ it.amenities = <<>> THEN ctx
  ELSE LET r == AddRows(ctx.store.amenities, ctx.project_id, it.amenities,
                        fault = "amenities") IN
       IF r.raised THEN [ctx EXCEPT !.raised = "Exception", !.msg = "store error"]
       ELSE [ctx EXCEPT !.store.amenities = r.table,
                        !.stats.amenities_created = @ + Len(it.amenities)]

\* Lines 68-71: add_media_links and its counter.
WriteMediaLinks(ctx, it, fault) ==
  IF ctx.raised # "none" \/ it.media_links = <<>> THEN ctx
  ELSE LET r == AddRows(ctx.store.media_links, ctx.project_id, it.media_links,
                        fault = "media_links") IN
       IF r.raised THEN [ctx EXCEPT !.raised = "Exception", !.msg = "store error"]
       ELSE [ctx EXCEPT !.store.media_links = r.table,
                        !.stats.media_links_created = @ + Len(it.media_links)]

\* A plausible slip: the counter is raised before add_source is called.
WriteSource_CountFirst(ctx, it, fault) ==
  IF ctx.raised # "none" \/ it.source = <<>> THEN ctx
  ELSE LET r == AddRows(ctx.store.sources, ctx.project_id, it.source,
                        fault = "source") IN
       IF r.raised THEN [ctx EXCEPT !.raised = "Exception", !.msg = "store error",
                                    !.stats.sources_created = @ + 1]
       ELSE [ctx EXCEPT !.store.sources = r.table,
                        !.stats.sources_created = @ + 1]

\* Lines 73-76: add_source and its counter.  it.source is the empty sequence
\* for an empty or absent source dict, else the one-element sequence of it.
WriteSource(ctx, it, fault) ==
  IF ctx.raised # "none" \/ it.source = <<>> THEN ctx
  ELSE LET r == AddRows(ctx.store.sources, ctx.project_id, it.source,
                        fault = "source") IN
       IF r.raised THEN [ctx EXCEPT !.raised = "Exception", !.msg = "store error"]
       ELSE [ctx EXCEPT !.store.sources = r.table,
                        !.stats.sources_created = @ + 1]

\* A plausible slip: the name check is missing.
NameIsPresent_Always(project_data) == TRUE

\* `if not project_data.get('name'): raise DropItem(...)`, negated.
NameIsPresent(project_data) == Truthy(Get(project_data, "name"))

\* The body of DatabasePipeline.process_item.  Every DatabaseManager call
\* commits in a session of its own, so what was committed before a failing call
\* stays in the store.
DatabaseStage(it, st, counters, fault) ==
  LET ctx0 == [store |-> st, stats |-> counters, raised |-> "none", msg |-> "none",
               project_id |-> 0]
  IN  IF ~NameIsPresent(it.project)
      THEN [ctx0 EXCEPT !.raised = "DropItem", !.msg = "Project name is required"]
      ELSE LET ctx1 == WriteParent(ctx0, it, fault) IN
           IF ctx1.raised # "none" THEN ctx1
           ELSE WriteSource(WriteMediaLinks(WriteAmenities(WriteUnits(ctx1, it, fault),
                                                           it, fault), it, fault), it, fault)

(* -------------------------------------------------------------- state *)

VARIABLES
  store,          \* the database: projects, units, amenities, media_links, sources
  processed_keys, \* DedupePipeline.processed_keys
  stats,          \* DatabasePipeline.stats
  pc,             \* where the item in hand is: idle, clean, dedupe, database, done
  item,           \* the item in hand (after "done": as the last stage left it)
  last,           \* how the last process_item call of the item in hand ended
  passed,         \* history: the keys of the items DedupePipeline returned in this run
  submitted,      \* the number of items the spiders have yielded so far
  calc            \* the call in hand of a function checked on its own, or the
                  \* pipelines of the workers that share the store

vars == <<store, processed_keys, stats, pc, item, last, passed, submitted, calc>>

\* Bound of the pipeline runs: the items yielded over all runs.
MaxRecords == 2

NoCalc == [op |-> "none"]

EmptyStore ==
  [projects |-> <<>>, units |-> <<>>, amenities |-> <<>>, media_links |-> <<>>,
   sources |-> <<>>]

NoLast == [stage |-> "none", raised |-> "none", result |-> "none", msg |-> "none",
           warning |-> FALSE, report |-> "none"]

NoChildren == [units |-> <<>>, amenities |-> <<>>, media_links |-> <<>>, source |-> <<>>]

OneOfEach ==
  [units |-> << [EmptyUnit EXCEPT !["unit_name"] = <<"u", " ">>] >>,
   amenities |-> << <<" ", "g">> >>,
   media_links |-> << [type |-> <<"image">>, url |-> <<"m">>, caption |-> Missing] >>,
   source |-> << [source_name |-> <<"s">>, source_url |-> <<"https://", "s">>] >>]

TwoUnits ==
  [NoChildren EXCEPT !.units = << [EmptyUnit EXCEPT !["unit_name"] = <<"u">>],
                                  [EmptyUnit EXCEPT !["unit_name"] = None] >>]

\* The item a spider yields (tier_b/base_spider.py parse_project_page).
MakeItem(project, children) ==
  [project |-> project, units |-> children.units, amenities |-> children.amenities,
   media_links |-> children.media_links, source |-> children.source,
   _is_update |-> FALSE, _existing_project_id |-> 0]

NoItem == MakeItem(EmptyProject, NoChildren)

Located(name, developer_name) ==
  [EmptyProject EXCEPT !["name"] = name, !["developer_name"] = developer_name,
                       !["city"] = <<"c">>, !["country"] = <<"k">>]

\* Records that vary the identity fields: the name absent, None, blank or in
\* two letter cases, the developer absent, None or given; and one record whose
\* website_url is no str.
IdentityItems ==
  { MakeItem(Located(n, d), OneOfEach) :
      n \in {Missing, None, <<" ">>, <<"a">>, <<"A", " ">>},
      d \in {Missing, None, <<"d">>} }
  \cup { MakeItem(Located(<<"a">>, <<"d">>), ch) : ch \in {NoChildren, TwoUnits} }
  \cup { MakeItem([Located(<<"a">>, <<"d">>) EXCEPT !["website_url"] = NonText],
                  NoChildren) }

\* Records of one project that vary the descriptive fields a merge touches,
\* and one that differs from them in website_url only.
MergeItems ==
  { MakeItem([Located(<<"a">>, <<"d">>) EXCEPT !["address"] = a, !["email"] = e,
                                               !["contact_email"] = c], NoChildren) :
      a \in {Missing, None, <<" ">>, <<"x">>, <<"y">>},
      e \in {Missing, None, <<"e">>},
      c \in {Missing, <<"f">>} }
  \cup { MakeItem([Located(<<"a">>, <<"d">>) EXCEPT !["website_url"] = <<"w">>],
                  NoChildren) }

\* The store call of the database stage that fails, if any.
StoreFaults == {"none", "parent", "units", "amenities", "media_links", "source"}
NoStoreFaults == {"none"}

Init ==
  /\ store = EmptyStore
  /\ processed_keys = {}
  /\ stats = ZeroStats
  /\ pc = "idle"
  /\ item = NoItem
  /\ last = NoLast
  /\ passed = <<>>
  /\ submitted = 0
  /\ calc = NoCalc

\* A spider yields an item and Scrapy hands it to the first pipeline.
Submit(Items) ==
  /\ pc \in {"idle", "done"}
  /\ submitted < MaxRecords
  /\ \E it \in Items : item' = it
  /\ pc' = "clean"
  /\ last' = NoLast
  /\ submitted' = submitted + 1
  /\ UNCHANGED <<store, processed_keys, stats, passed, calc>>

\* CleanNormalizePipeline.process_item
CleanStep ==
  /\ pc = "clean"
  /\ LET r == CleanStage(item) IN
     /\ item' = r.item
     /\ last' = [stage |-> "clean", raised |-> r.raised,
                 result |-> CleanOutcome(r.raised), msg |-> r.msg, warning |-> FALSE,
                 report |-> CleanReport(r.raised)]
     /\ pc' = IF CleanOutcome(r.raised) = "return" THEN "dedupe" ELSE "done"
  /\ UNCHANGED <<store, processed_keys, stats, passed, submitted, calc>>

\* DedupePipeline.process_item; the lookup may fail (a store I/O error) when
\* LookupFaults holds TRUE.
DedupeStep(LookupFaults) ==
  /\ pc = "dedupe"
  /\ \E lookup_fails \in LookupFaults :
       LET r == DedupeStage(item, processed_keys, store.projects, lookup_fails) IN
       /\ item' = r.item
       /\ processed_keys' = r.keys
       /\ last' = [stage |-> "dedupe", raised |-> r.raised,
                   result |-> DedupeOutcome(r.raised), msg |-> r.msg,
                   warning |-> r.warning, report |-> DedupeReport(r.raised)]
       /\ pc' = IF DedupeOutcome(r.raised) = "return" THEN "database" ELSE "done"
       /\ passed' = IF DedupeOutcome(r.raised) = "return"
                    THEN Append(passed, GenerateProjectKey(item.project)) ELSE passed
  /\ UNCHANGED <<store, stats, submitted, calc>>

\* DatabasePipeline.process_item; the store call that Faults names may fail.
DatabaseStep(Faults) ==
  /\ pc = "database"
  /\ \E fault \in Faults :
       LET r == DatabaseStage(item, store, stats, fault) IN
       /\ store' = r.store
       /\ stats' = r.stats
       /\ last' = [stage |-> "database", raised |-> r.raised,
                   result |-> DatabaseOutcome(r.raised), msg |-> r.msg,
                   warning |-> FALSE, report |-> DatabaseReport(r.raised)]
  /\ pc' = "done"
  /\ UNCHANGED <<item, processed_keys, passed, submitted, calc>>

\* The process ends and a later crawl starts: new pipeline objects, the same
\* database file.
NewRun ==
  /\ pc = "done"
  /\ pc' = "idle"
  /\ item' = NoItem
  /\ last' = NoLast
  /\ processed_keys' = {}
  /\ stats' = ZeroStats
  /\ passed' = <<>>
  /\ UNCHANGED <<store, submitted, calc>>

\* Crawls over records that vary the identity fields, with a store that may
\* fail in any call.
Next ==
  \/ Submit(IdentityItems)
  \/ CleanStep
  \/ DedupeStep(BOOLEAN)
  \/ DatabaseStep(StoreFaults)
  \/ NewRun

Spec == Init /\ [][Next]_vars

\* The same crawls with a store that never fails.
NextReliable ==
  \/ Submit(IdentityItems)
  \/ CleanStep
  \/ DedupeStep({FALSE})
  \/ DatabaseStep(NoStoreFaults)
  \/ NewRun

SpecReliable == Init /\ [][NextReliable]_vars

\* Crawls over records of one project that vary the descriptive fields.
NextMerge ==
  \/ Submit(MergeItems)
  \/ CleanStep
  \/ DedupeStep(BOOLEAN)
  \/ DatabaseStep(StoreFaults)
  \/ NewRun

SpecMerge == Init /\ [][NextMerge]_vars

NextMergeReliable ==
  \/ Submit(MergeItems)
  \/ CleanStep
  \/ DedupeStep({FALSE})
  \/ DatabaseStep(NoStoreFaults)
  \/ NewRun

SpecMergeReliable == Init /\ [][NextMergeReliable]_vars

\* Records of one project, each with one unit whose size and price vary:
\* texts with and without a number, and numbers a caller passes as such.
UnitItems ==
  { MakeItem(Located(<<"a">>, <<"d">>),
             [NoChildren EXCEPT !.units =
                << [EmptyUnit EXCEPT !["size_sqft"] = sf, !["price_local_value"] = pr] >>]) :
      sf \in { <<"-","5">>, Num(-5, 0), <<"l","a","r","g","e">>,
               <<"1",",","2","0","0"," ","s","q"," ","f","t">> },
      pr \in { Missing, <<"P","r","i","c","e"," ","o","n"," ","r","e","q","u","e","s","t">>,
               Num(-7, 0) } }

\* Amenity texts: one of each invalid shape, and valid ones.
InvalidAmenityTexts ==
  { <<>>, <<"»">>, <<"a","@","b",".","c">>, <<"https://","x">>, <<"<","b",">">>,
    <<"1","2">>, <<"-"," ","-">>, <<"x">> }

ValidAmenityTexts == { <<"g","y","m">>, <<" ","P","o","o","l"," ">> }

\* Records of one project whose amenities vary: one valid amenity, followed by
\* another text or not.
AmenityItems ==
  { MakeItem(Located(<<"a">>, <<"d">>), [NoChildren EXCEPT !.amenities = <<x>> \o rest]) :
      x \in InvalidAmenityTexts \cup ValidAmenityTexts,
      rest \in {<<>>, << <<"g","y","m">> >>, << <<"1","2">> >>} }

NextAmenities ==
  \/ Submit(AmenityItems)
  \/ CleanStep
  \/ DedupeStep({FALSE})
  \/ DatabaseStep(NoStoreFaults)
  \/ NewRun

SpecAmenities == Init /\ [][NextAmenities]_vars

\* Crawls over those records with a store that never fails.
NextUnits ==
  \/ Submit(UnitItems)
  \/ CleanStep
  \/ DedupeStep({FALSE})
  \/ DatabaseStep(NoStoreFaults)
  \/ NewRun

SpecUnits == Init /\ [][NextUnits]_vars

(* ------------------------------------------- functions on their own *)

InitPipeline ==
  /\ store = EmptyStore
  /\ processed_keys = {}
  /\ stats = ZeroStats
  /\ pc = "idle"
  /\ item = NoItem
  /\ last = NoLast
  /\ passed = <<>>
  /\ submitted = 0

PipelineUnchanged ==
  UNCHANGED <<store, processed_keys, stats, pc, item, last, passed, submitted>>

\* The single pipeline's variables other than the store.
WorkersUnchanged ==
  UNCHANGED <<processed_keys, stats, pc, item, last, passed, submitted>>

\* The keys compute_completeness_score reads.
WeightedKeys == {"name", "city", "country", "website_url", "developer_name", "address",
                 "description", "contact_email", "inquiry_url", "est_completion",
                 "status"}

\* Project dicts over the weighted keys: each absent or a text, the name also
\* None or empty.
ScoreInputs ==
  { [k \in ProjectKeys |-> IF k = "name" THEN n
                           ELSE IF k \in present THEN <<"x">> ELSE Missing] :
      n \in {Missing, None, <<>>, <<"x">>},
      present \in SUBSET (WeightedKeys \ {"name"}) }

InitScore ==
  /\ InitPipeline
  /\ calc \in { [op |-> "score", data |-> d, called |-> FALSE, score |-> NoScore,
                 prev |-> NoScore, added |-> "none"] : d \in ScoreInputs }

\* compute_completeness_score is called on the dict in hand.
ScoreCall ==
  /\ calc.op = "score" /\ ~calc.called
  /\ calc' = [calc EXCEPT !.called = TRUE,
                          !.score = ComputeCompletenessScore(calc.data)]
  /\ PipelineUnchanged

\* A weighted key that was absent, None or empty gets a text, and the score
\* is computed again.
ScoreAddField ==
  /\ calc.op = "score" /\ calc.called
  /\ \E k \in WeightedKeys :
       /\ ~Truthy(calc.data[k])
       /\ calc' = [calc EXCEPT
                     !.data = [calc.data EXCEPT ![k] = <<"x">>],
                     !.prev = calc.score,
                     !.added = k,
                     !.score = ComputeCompletenessScore([calc.data EXCEPT ![k] = <<"x">>])]
  /\ PipelineUnchanged

NextScore == ScoreCall \/ ScoreAddField

SpecScore == InitScore /\ [][NextScore]_vars

\* Bound of the key inputs: the longest name.
MaxNameLen == 2

KeyChars == {"a", "A", " "}

RECURSIVE TextsUpTo(_)
TextsUpTo(n) ==
  IF n = 0 THEN {<<>>}
  ELSE TextsUpTo(n - 1) \cup { Append(t, c) : t \in TextsUpTo(n - 1), c \in KeyChars }

\* Project dicts over the four key fields.
KeyInputs ==
  { [EmptyProject EXCEPT !["name"] = n, !["developer_name"] = d, !["city"] = c,
                         !["country"] = <<"k">>] :
      n \in TextsUpTo(MaxNameLen) \cup {Missing, None},
      d \in {Missing, None, <<"b">>, <<"B", " ">>},
      c \in {<<>>, <<"c">>} }

InitKey ==
  /\ InitPipeline
  /\ calc \in { [op |-> "key", a |-> a, b |-> b, called |-> FALSE,
                 key_a |-> <<>>, key_b |-> <<>>] : a \in KeyInputs, b \in KeyInputs }

\* _generate_project_key is called on each of the two dicts.
KeyCall ==
  /\ calc.op = "key" /\ ~calc.called
  /\ calc' = [calc EXCEPT !.called = TRUE,
                          !.key_a = GenerateProjectKey(calc.a),
                          !.key_b = GenerateProjectKey(calc.b)]
  /\ PipelineUnchanged

NextKey == KeyCall

SpecKey == InitKey /\ [][NextKey]_vars

\* Status texts: up to two words, each a keyword of the table in some letter
\* case or another word, with and without surrounding whitespace.
StatusWords ==
  { <<>>, <<"P","r","e","-","C","o","n","s","t","r","u","c","t","i","o","n">>, <<"u","n","d","e","r"," ","c","o","n","s","t","r","u","c","t","i","o","n">>, <<"U","N","D","E","R"," ","C","O","N","S","T","R","U","C","T","I","O","N">>, <<"C","o","m","p","l","e","t","e","d">>, <<"c","o","m","p","l","e","t","e","d">>, <<"x","y","z">> }

StatusInputs ==
  { lead \o first \o sep \o second :
      lead \in {<<>>, <<" ">>}, first \in StatusWords, sep \in {<<>>, <<" ">>, <<"-">>},
      second \in StatusWords }

InitStatus ==
  /\ InitPipeline
  /\ calc \in { [op |-> "status", text |-> t, called |-> FALSE, result |-> <<>>] :
                  t \in StatusInputs }

\* _normalize_status is called on the text in hand.
NormalizeStatusCall ==
  /\ calc.op = "status" /\ ~calc.called
  /\ calc' = [calc EXCEPT !.called = TRUE, !.result = NormalizeStatus(calc.text)]
  /\ PipelineUnchanged

NextStatus == NormalizeStatusCall

SpecStatus == InitStatus /\ [][NextStatus]_vars

\* Bound of the texts given to the cleaners: the longest text.
MaxTextLen == 4

TextChars == {"a", " ", ",", "&", ";"}

RECURSIVE CleanerTextsUpTo(_)
CleanerTextsUpTo(n) ==
  IF n = 0 THEN {<<>>}
  ELSE CleanerTextsUpTo(n - 1)
       \cup { Append(t, c) : t \in CleanerTextsUpTo(n - 1), c \in TextChars }

InitText ==
  /\ InitPipeline
  /\ calc \in { [op |-> "text", text |-> t, called |-> FALSE, pipeline_once |-> <<>>,
                 pipeline_twice |-> <<>>, html_once |-> <<>>, html_twice |-> <<>>] :
                  t \in CleanerTextsUpTo(MaxTextLen) \cup {None} }

\* Each cleaner is called on the text in hand and then on its own result.
CleanTextCall ==
  /\ calc.op = "text" /\ ~calc.called
  /\ calc' = [calc EXCEPT !.called = TRUE,
                          !.pipeline_once = CleanText(calc.text),
                          !.pipeline_twice = CleanText(CleanText(calc.text)),
                          !.html_once = HtmlCleanText(calc.text),
                          !.html_twice = HtmlCleanText(HtmlCleanText(calc.text))]
  /\ PipelineUnchanged

NextText == CleanTextCall

SpecText == InitText /\ [][NextText]_vars

\* Price texts a page can hold: with and without a currency symbol, grouped
\* and plain digits, the words that set a note.
PriceTexts ==
  { <<"P","r","i","c","e"," ","o","n"," ","r","e","q","u","e","s","t">>,
    <<"$","1",",","2","0","0",",","0","0","0">>,
    <<"A","E","D"," ","2",",","5","0","0",",","0","0","0">>,
    <<"F","r","o","m"," ","$","1",",","0","0","0",",","0","0","0">>,
    <<"C","o","n","t","a","c","t"," ","u","s">>,
    <<"$"," ","o","n"," ","r","e","q","u","e","s","t">>,
    <<"1",",","2","3","4","5",".","5","0">>,
    <<"S","$","5">>,
    <<"c","a","l","l">>,
    <<"£","5","0","0",",","0","0","0">>,
    <<"-","5">>,
    <<"0">>,
    <<"F","r","o","m"," ","5","0","0"," ","o","n"," ","r","e","q","u","e","s","t">>,
    <<"f","r","o","m"," ","£","5",","," ","c","o","n","t","a","c","t">>,
    <<"1",",","0","0","0"," ","o","n"," ","r","e","q","u","e","s","t">>,
    <<>> }

\* Prices that arrive as numbers.
PriceAmounts == { Num(1200000, 0), Num(5, 1), Num(-7, 0) }

SizeValues ==
  { Missing, None, <<"1",",","2","0","0"," ","s","q"," ","f","t">>,
    <<"l","a","r","g","e">>, <<"1","2","0",".","5","0"," ","m">>, <<"-","5">>,
    Num(-5, 0), Num(0, 0) }

BedroomValues ==
  { Missing, <<"S","t","u","d","i","o">>, <<"2">>, <<"3",".","5"," ","b","e","d","s">>,
    <<"n","/","a">>, Num(-1, 0) }

BathroomValues == { Missing, <<"2",".","5">>, <<"n","o","n","e">>, Num(-2, 0) }

PriceValues ==
  { Missing, <<"P","r","i","c","e"," ","o","n"," ","r","e","q","u","e","s","t">>,
    <<"$","1",",","2","0","0",",","0","0","0">>, <<"c","a","l","l">>,
    <<"F","r","o","m"," ","$","5","0","0">>, Num(-7, 0) }

\* Unit dicts over the fields _clean_unit parses.
UnitInputs ==
  { [EmptyUnit EXCEPT !["size_sqft"] = sf, !["size_sqm"] = sm, !["bedrooms"] = bd,
                      !["bathrooms"] = bt, !["price_local_value"] = pr] :
      sf \in SizeValues, sm \in {Missing, <<"9"," ","m">>}, bd \in BedroomValues,
      bt \in BathroomValues, pr \in PriceValues }

\* Unit dicts that carry a currency and a note of their own beside a price
\* that is a number, a text or absent.
PricedUnits ==
  { [EmptyUnit EXCEPT !["unit_name"] = <<"u", " ">>, !["price_local_value"] = pr,
                      !["price_local_currency"] = cu, !["price_note"] = nt] :
      pr \in {Missing, Num(500, 0), Num(0, 0), <<"$","5","0","0">>, <<"c","a","l","l">>},
      cu \in {Missing, <<"A","E","D">>},
      nt \in {Missing, None, <<"F","r","o","m"," ">>} }

InitParse ==
  /\ InitPipeline
  /\ calc \in { [op |-> "price", text |-> t, called |-> FALSE, result |-> NoPrice] :
                  t \in PriceTexts }
          \cup { [op |-> "amount", text |-> t, called |-> FALSE, result |-> NoPrice] :
                   t \in PriceAmounts }
          \cup { [op |-> "unit", unit |-> u, called |-> FALSE, cleaned |-> EmptyUnit] :
                   u \in UnitInputs \cup PricedUnits }

\* _parse_price is called on the text, or the number, in hand.
ParsePriceCall ==
  /\ calc.op \in {"price", "amount"} /\ ~calc.called
  /\ calc' = [calc EXCEPT !.called = TRUE, !.result = ParsePrice(calc.text)]
  /\ PipelineUnchanged

\* _clean_unit is called on the unit in hand.
CleanUnitCall ==
  /\ calc.op = "unit" /\ ~calc.called
  /\ calc' = [calc EXCEPT !.called = TRUE, !.cleaned = CleanUnit(calc.unit)]
  /\ PipelineUnchanged

NextParse == ParsePriceCall \/ CleanUnitCall

SpecParse == InitParse /\ [][NextParse]_vars

\* Bound of the upsert_project calls in a row.
MaxCalls == 3

\* Dicts as clean_project_data_for_db hands them to upsert_project: two names,
\* the address absent, None or given, and one dict each without developer_name
\* and with a website_url.
UpsertInputs ==
  { [Located(n, <<"d">>) EXCEPT !["address"] = a] :
      n \in {<<"a">>, <<"b">>}, a \in {Missing, None, <<"x">>, <<"y">>} }
  \cup { Located(<<"a">>, Missing),
         [Located(<<"a">>, <<"d">>) EXCEPT !["website_url"] = <<"w">>] }

InitUpsert ==
  /\ InitPipeline
  /\ calc = [op |-> "upsert", calls |-> 0, data |-> EmptyProject, raised |-> FALSE,
             id |-> 0]

\* upsert_project is called on the store as the earlier calls left it.
UpsertCall ==
  /\ calc.op = "upsert" /\ calc.calls < MaxCalls
  /\ \E d \in UpsertInputs :
       LET r == UpsertProject(store.projects, d, ComputeCompletenessScore(d), FALSE) IN
       /\ store' = [store EXCEPT !.projects = r.rows]
       /\ calc' = [calc EXCEPT !.calls = @ + 1, !.data = d, !.raised = r.raised,
                               !.id = r.id]
  /\ WorkersUnchanged

NextUpsert == UpsertCall

SpecUpsert == InitUpsert /\ [][NextUpsert]_vars

\* The child tables and lists of elements for each: one or three elements.
ChildTables == {"units", "amenities", "media_links", "sources"}

ChildLists(kind) ==
  LET elems == CASE kind = "units" ->
                      { [EmptyUnit EXCEPT !["unit_name"] = <<"u">>],
                        [EmptyUnit EXCEPT !["unit_name"] = <<"v">>] }
                 [] kind = "amenities" -> { <<"g","y","m">>, <<"s","p","a">> }
                 [] kind = "media_links" ->
                      { [type |-> <<"image">>, url |-> <<"m">>, caption |-> Missing],
                        [type |-> <<"video">>, url |-> <<"n">>, caption |-> Missing] }
                 [] OTHER -> { [source_name |-> <<"s">>, source_url |-> <<"https://", "s">>] }
      e == CHOOSE x \in elems : TRUE
  IN  IF kind = "sources" THEN { <<e>> }
      ELSE { <<e>> } \cup { <<e, f, e>> : f \in elems \ {e} }

\* A store with one parent, to which the calls append.
InitAppend ==
  /\ store = [EmptyStore EXCEPT !.projects =
                << NewProjectRow(1, Located(<<"a">>, <<"d">>),
                                 ComputeCompletenessScore(Located(<<"a">>, <<"d">>))) >>]
  /\ processed_keys = {}
  /\ stats = ZeroStats
  /\ pc = "idle"
  /\ item = NoItem
  /\ last = NoLast
  /\ passed = <<>>
  /\ submitted = 0
  /\ calc = [op |-> "append", calls |-> 0, kind |-> "none", data |-> <<>>, k |-> 0,
             raised |-> FALSE]

\* One of add_units, add_amenities, add_media_links, add_source is called for
\* parent 1 and fails at step k, or does not fail (k = 0).
AppendCall ==
  /\ calc.op = "append" /\ calc.calls < MaxCalls
  /\ \E kind \in ChildTables : \E data \in ChildLists(kind) : \E k \in 0..(Len(data) + 1) :
       LET r == AddRowsAt(store[kind], 1, data, k) IN
       /\ store' = [store EXCEPT ![kind] = r.table]
       /\ calc' = [calc EXCEPT !.calls = @ + 1, !.kind = kind, !.data = data, !.k = k,
                               !.raised = r.raised]
  /\ WorkersUnchanged

NextAppend == AppendCall

SpecAppend == InitAppend /\ [][NextAppend]_vars

\* Project dicts as create_project hands them to clean_project_data_for_db:
\* 'email' (which extract_contact_info sets, to None when the page shows none),
\* 'contact_email' and 'phone' absent, None or given, beside model fields.
DbCleanInputs ==
  { [Located(<<"a">>, d) EXCEPT !["email"] = e, !["contact_email"] = c, !["phone"] = ph,
                                !["address"] = a] :
      d \in {Missing, <<"d">>}, e \in {Missing, None, <<"e">>},
      c \in {Missing, None, <<"f">>}, ph \in {Missing, None, <<"5">>},
      a \in {Missing, None, <<"x">>} }

InitDbClean ==
  /\ InitPipeline
  /\ calc \in { [op |-> "dbclean", project_data |-> d, called |-> FALSE,
                  cleaned_data |-> EmptyProject] : d \in DbCleanInputs }

\* clean_project_data_for_db is called on the dict in hand.
DbCleanCall ==
  /\ calc.op = "dbclean" /\ ~calc.called
  /\ calc' = [calc EXCEPT !.called = TRUE,
                          !.cleaned_data = CleanProjectDataForDb(calc.project_data)]
  /\ PipelineUnchanged

NextDbClean == DbCleanCall

SpecDbClean == InitDbClean /\ [][NextDbClean]_vars

\* Amenity texts as pages carry them: with markup, with a line break inside a
\* tag, and of the invalid shapes.
PageAmenityTexts ==
  { <<"<","b",">","G","y","m","<","/","b",">">>,
    <<"<","i",">","x","<","/","i",">">>,
    <<"G","y","m","<","b","r","\n","/",">">>,
    <<"<","a",">","1","<","/","a",">">>,
    <<"G"," ","<","b",">"," ","y","m">>,
    <<"<","<","b",">",">","P","o","o","l">>,
    <<"a","<",">","b">>,
    <<"<","b",">">>,
    <<"P","o","o","l">>,
    <<"»">>,
    <<"1","2">>,
    <<"x","<","y">> }

\* The amenities tables the cleaner finds: one or two rows of parent 1, each
\* as the clean stage left the page's text.
AmenityTables ==
  LET rows == { [project_id |-> 1, data |-> CleanAmenity(t)] : t \in PageAmenityTexts }
  IN  { <<r>> : r \in rows } \cup { <<r, q>> : r, q \in rows }

InitCleaner ==
  /\ \E table \in AmenityTables :
       /\ store = [EmptyStore EXCEPT
                     !.projects = << NewProjectRow(1, Located(<<"a">>, <<"d">>),
                                       ComputeCompletenessScore(Located(<<"a">>, <<"d">>))) >>,
                     !.amenities = table]
       /\ calc = [op |-> "cleaner", calls |-> 0, failed |-> FALSE, completed |-> 0,
                  first |-> table]
  /\ processed_keys = {}
  /\ stats = ZeroStats
  /\ pc = "idle"
  /\ item = NoItem
  /\ last = NoLast
  /\ passed = <<>>
  /\ submitted = 0

\* DataCleaner.clean_amenities runs once over the table; the store may fail.
CleanAmenitiesCall ==
  /\ calc.op = "cleaner" /\ calc.calls < MaxCalls
  /\ \E fails \in BOOLEAN :
       /\ store' = [store EXCEPT !.amenities = CleanAmenities(store.amenities, fails)]
       /\ calc' = [calc EXCEPT !.calls = @ + 1, !.failed = fails,
                               !.completed = IF fails THEN @ ELSE @ + 1]
  /\ WorkersUnchanged

NextCleaner == CleanAmenitiesCall

SpecCleaner == InitCleaner /\ [][NextCleaner]_vars

(* ------------------------------------------------- the Tier-B spider *)

\* Bounds of a crawl: the largest max_projects argument, the links of one
\* listing page, and the listing pages of the portal.
MaxProjects == 2
MaxLinks == 3
MaxPages == 2

\* BaseTierBSpider.__init__, and the first listing page on its way: the
\* counters of the spider, the responses that wait for their callback, and
\* the generator of the parse call that is running, if any.
InitSpider ==
  /\ InitPipeline
  /\ \E m \in 1..MaxProjects :
       calc = [op |-> "spider", max_projects |-> m, projects_crawled |-> 0,
               listing_pending |-> 1, pages |-> 1, project_pending |-> 0,
               parsing |-> FALSE, links_left |-> 0, has_next |-> FALSE,
               requested |-> 0, yielded |-> 0]

\* parse is called with a listing page: extract_project_links finds its links.
ParseStart ==
  /\ calc.op = "spider" /\ ~calc.parsing /\ calc.listing_pending > 0
  /\ \E n \in 0..MaxLinks : \E next \in BOOLEAN :
       /\ next => calc.pages < MaxPages
       /\ calc' = [calc EXCEPT !.listing_pending = @ - 1, !.parsing = TRUE,
                               !.links_left = n, !.has_next = next]
  /\ PipelineUnchanged

\* One turn of the loop over project_links: the limit is compared with the
\* project pages parsed so far, then the link is followed.
ParseLink ==
  /\ calc.op = "spider" /\ calc.parsing /\ calc.links_left > 0
  /\ calc' = IF calc.projects_crawled >= calc.max_projects
             THEN [calc EXCEPT !.links_left = 0]
             ELSE [calc EXCEPT !.links_left = @ - 1, !.project_pending = @ + 1,
                               !.requested = @ + 1]
  /\ PipelineUnchanged

\* After the loop: the next listing page is followed while the limit is not
\* reached; the generator ends.
ParsePagination ==
  /\ calc.op = "spider" /\ calc.parsing /\ calc.links_left = 0
  /\ calc' = IF calc.has_next /\ calc.projects_crawled < calc.max_projects
             THEN [calc EXCEPT !.parsing = FALSE, !.has_next = FALSE,
                               !.listing_pending = @ + 1, !.pages = @ + 1]
             ELSE [calc EXCEPT !.parsing = FALSE, !.has_next = FALSE]
  /\ PipelineUnchanged

\* parse_project_page is called with a project page: the counter goes up and
\* the item is yielded, unless an extractor raises (logged, no item).
ParseProjectPage ==
  /\ calc.op = "spider" /\ calc.project_pending > 0
  /\ \E raises \in BOOLEAN :
       calc' = [calc EXCEPT !.project_pending = @ - 1, !.projects_crawled = @ + 1,
                            !.yielded = IF raises THEN @ ELSE @ + 1]
  /\ PipelineUnchanged

NextSpider == ParseStart \/ ParseLink \/ ParsePagination \/ ParseProjectPage

SpecSpider == InitSpider /\ [][NextSpider]_vars

(* ------------------------------------------- two workers, one store *)


\* Two crawler processes, each with pipeline objects of its own, over one
\* database file.  A step of a worker is one pipeline stage up to its next
\* DatabaseManager call: every call opens, uses and closes a session of its
\* own, and nothing in the code holds a lock between two calls.
Workers == {1, 2}

\* Records of one project (and one of another), without child records.
WorkerItems ==
  { MakeItem([Located(n, <<"d">>) EXCEPT !["address"] = a], NoChildren) :
      n \in {<<"a">>, <<"b">>}, a \in {Missing, <<"x">>} }

IdleWorker == [pc |-> "idle", item |-> NoItem, processed_keys |-> {}, existing |-> 0,
               result |-> "none"]

InitWorkers ==
  /\ InitPipeline
  /\ calc = [op |-> "workers", of |-> [w \in Workers |-> IdleWorker]]

\* A spider of worker w yields an item.
WorkerSubmit(w) ==
  /\ calc.op = "workers" /\ calc.of[w].pc = "idle"
  /\ \E it \in WorkerItems :
       calc' = [calc EXCEPT !.of[w].item = it, !.of[w].pc = "clean"]
  /\ UNCHANGED store /\ WorkersUnchanged

\* CleanNormalizePipeline.process_item of worker w.
WorkerClean(w) ==
  /\ calc.op = "workers" /\ calc.of[w].pc = "clean"
  /\ LET r == CleanStage(calc.of[w].item) IN
     calc' = [calc EXCEPT !.of[w].item = r.item,
                          !.of[w].result = CleanOutcome(r.raised),
                          !.of[w].pc = IF CleanOutcome(r.raised) = "return"
                                       THEN "dedupe" ELSE "done"]
  /\ UNCHANGED store /\ WorkersUnchanged

\* DedupePipeline.process_item of worker w: the check-existing step.
WorkerDedupe(w) ==
  /\ calc.op = "workers" /\ calc.of[w].pc = "dedupe"
  /\ LET r == DedupeStage(calc.of[w].item, calc.of[w].processed_keys, store.projects,
                          FALSE) IN
     calc' = [calc EXCEPT !.of[w].item = r.item,
                          !.of[w].processed_keys = r.keys,
                          !.of[w].result = DedupeOutcome(r.raised),
                          !.of[w].pc = IF DedupeOutcome(r.raised) = "return"
                                       THEN "database" ELSE "done"]
  /\ UNCHANGED store /\ WorkersUnchanged

\* DatabasePipeline.process_item of worker w up to its first store call:
\* update_project (one session), or the get_project_by_key call with which
\* upsert_project starts.
WorkerDatabase(w) ==
  /\ calc.op = "workers" /\ calc.of[w].pc = "database"
  /\ LET it == calc.of[w].item IN
     IF ~NameIsPresent(it.project)
     THEN /\ calc' = [calc EXCEPT !.of[w].result = DatabaseOutcome("DropItem"),
                                  !.of[w].pc = "done"]
          /\ UNCHANGED store
     ELSE IF it._is_update /\ it._existing_project_id # 0
     THEN LET r == UpdateProject(store.projects, it._existing_project_id, it.project,
                                 UpdateScore(it.project), FALSE) IN
          /\ store' = [store EXCEPT !.projects = r.rows]
          /\ calc' = [calc EXCEPT
                        !.of[w].result = DatabaseOutcome(IF r.raised THEN "Exception"
                                                         ELSE "none"),
                        !.of[w].pc = "done"]
     ELSE LET d == CleanProjectDataForDb(it.project) IN
          /\ calc' = [calc EXCEPT
                        !.of[w].existing =
                           GetProjectByKey(store.projects, d["name"],
                                           GetOrEmpty(d, "developer_name"),
                                           GetOrEmpty(d, "city"), GetOrEmpty(d, "country"),
                                           Get(d, "website_url")),
                        !.of[w].pc = "upsert"]
          /\ UNCHANGED store
  /\ WorkersUnchanged

\* The rest of upsert_project of worker w, in the session upsert_project
\* opened: the branch on what its lookup returned, commit, refresh.
WorkerUpsertWrite(w) ==
  /\ calc.op = "workers" /\ calc.of[w].pc = "upsert"
  /\ LET it == calc.of[w].item
         d == CleanProjectDataForDb(it.project)
     IN  IF calc.of[w].existing # 0 \/ ~IsText(d["name"])
         THEN /\ calc' = [calc EXCEPT !.of[w].result = DatabaseOutcome("Exception"),
                                      !.of[w].pc = "done"]
              /\ UNCHANGED store
         ELSE /\ store' = [store EXCEPT !.projects =
                             Append(@, NewProjectRow(Len(@) + 1, d,
                                                     ComputeCompletenessScore(it.project)))]
              /\ calc' = [calc EXCEPT !.of[w].result = DatabaseOutcome("none"),
                                      !.of[w].pc = "done"]
  /\ WorkersUnchanged

NextWorkers ==
  \E w \in Workers :
     \/ WorkerSubmit(w)
     \/ WorkerClean(w)
     \/ WorkerDedupe(w)
     \/ WorkerDatabase(w)
     \/ WorkerUpsertWrite(w)

SpecWorkers == InitWorkers /\ [][NextWorkers]_vars

(* ------------------------------------------------------------- claims *)

\* The project dict a stored row would be as a record.
RowAsProject(row) ==
  [k \in ProjectKeys |-> IF k \in ModelColumns THEN row.f[k] ELSE Missing]

\* The canonical key of a stored parent.
RowKey(row) == GenerateProjectKey(RowAsProject(row))

\* The ids of the stored parents whose canonical key is that of project_data.
SameKeyParents(project_data) ==
  {i \in 1..Len(store.projects) :
     RowKey(store.projects[i]) = GenerateProjectKey(project_data)}

PassedBefore(key) == \E i \in 1..Len(passed) : passed[i] = key

\* C1: within one run at most one record per canonical key leaves
\* DedupePipeline.process_item: no key occurs twice among the records that
\* passed, the first record with a key passes, and every later record with that
\* key is dropped without touching the store.
C1_AtMostOncePerRun ==
  /\ [](\A i, j \in 1..Len(passed) : i # j => passed[i] # passed[j])
  /\ [][pc = "dedupe" =>
          IF PassedBefore(GenerateProjectKey(item.project))
          THEN last'.result = "DropItem" /\ pc' = "done"
               /\ passed' = passed /\ store' = store
          ELSE last'.result = "return" /\ pc' = "database"
               /\ passed' = Append(passed, GenerateProjectKey(item.project))]_vars

\* C1 witness: a second record with a key of this run has been dropped as a
\* duplicate.
C1_Witness ==
  /\ pc = "done" /\ last.stage = "dedupe" /\ last.msg = "Duplicate project"
  /\ PassedBefore(GenerateProjectKey(item.project))

\* C2: a record that meets a stored parent with its canonical key in a later
\* run leaves the dedupe stage with _is_update true and that parent's id (when
\* the lookup itself did not fail), and the database stage leaves the number of
\* parents unchanged.
C2_LaterRunResolvesExisting ==
  /\ [][(pc = "dedupe" /\ pc' = "database" /\ ~last'.warning
         /\ SameKeyParents(item.project) # {})
        => (item'._is_update
            /\ item'._existing_project_id \in SameKeyParents(item.project))]_vars
  /\ [][(pc = "database" /\ SameKeyParents(item.project) # {})
        => Len(store'.projects) = Len(store.projects)]_vars

\* C3: no two stored parents have the same canonical key.
C3_UniqueCanonicalKey ==
  \A i, j \in 1..Len(store.projects) :
     i # j => RowKey(store.projects[i]) # RowKey(store.projects[j])

\* C4: a record whose database stage fails leaves the store as it was before
\* the record.
C4_RecordWriteAtomic ==
  [][(pc = "database" /\ last'.result = "DropItem") => store' = store]_vars

\* C5: whatever a stage's body raises leaves process_item as DropItem, never as
\* another exception, and the pipeline is then ready for the next record.
C5_ExceptionsBecomeDrops ==
  /\ last.result \in {"none", "return", "DropItem"}
  /\ last.raised # "none" => (last.result = "DropItem" /\ pc = "done")

\* C5 witness: a store error in the database stage has ended as DropItem.
C5_Witness ==
  /\ last.stage = "database" /\ last.raised = "Exception" /\ last.result = "DropItem"
  /\ pc = "done"

\* C10: a record whose project has no name (absent, None or empty) is dropped
\* by the database stage with the store and every counter unchanged.
C10_NoNameDropsRecord ==
  [][(pc = "database" /\ ~Truthy(Get(item.project, "name")))
     => (last'.result = "DropItem" /\ store' = store /\ stats' = stats)]_vars

\* C10 witness: a nameless record that carries child records has been dropped
\* by the database stage.
C10_Witness ==
  /\ pc = "done" /\ last.stage = "database" /\ last.result = "DropItem"
  /\ ~Truthy(Get(item.project, "name"))
  /\ item.units # <<>> /\ item.amenities # <<>> /\ item.source # <<>>

\* The update branch of the database stage is taken for the item in hand.
OnUpdateBranch == pc = "database" /\ item._is_update /\ item._existing_project_id # 0

\* C6: on the existing branch every column of the stored parent keeps its
\* value when the incoming value is None or absent and takes the incoming value
\* otherwise (or the write failed and the row is as before); every other parent
\* is untouched.  completeness_score, which update_project derives itself, is
\* the subject of C7.
C6_UpdateMergesNonNull ==
  [][(OnUpdateBranch /\ NameIsPresent(item.project)) =>
       LET id == item._existing_project_id
           old == store.projects[id]
           new == store'.projects[id]
       IN  /\ Len(store'.projects) = Len(store.projects)
           /\ \A i \in 1..Len(store.projects) : i # id => store'.projects[i] = store.projects[i]
           /\ \/ new = old
              \/ \A c \in ModelColumns :
                   IF item.project[c] = None \/ item.project[c] = Missing
                   THEN new.f[c] = old.f[c]
                   ELSE new.f[c] = item.project[c]]_vars

\* C6 witness: an update has kept a stored address against an incoming None
\* and has replaced the stored contact_email by the incoming one.
C6_Witness ==
  /\ pc = "done" /\ last.stage = "database" /\ last.result = "return"
  /\ item._is_update /\ item._existing_project_id \in 1..Len(store.projects)
  /\ item.project["address"] = None
  /\ Truthy(store.projects[item._existing_project_id].f["address"])
  /\ item.project["contact_email"] = <<"f">>
  /\ store.projects[item._existing_project_id].f["contact_email"] = <<"f">>

\* C7: every stored parent's completeness_score is the score of the fields it
\* is stored with.
C7_ScoreMatchesStoredFields ==
  \A i \in 1..Len(store.projects) :
     store.projects[i].completeness_score
       = ComputeCompletenessScore(RowAsProject(store.projects[i]))

\* The weight table of the claim, in twentieths; contact_email and
\* inquiry_url share one weight.
WeightOf(k) ==
  CASE k = "name" -> 4
    [] k \in {"city", "country", "website_url"} -> 2
    [] OTHER -> 1

RECURSIVE SumWeights(_)
SumWeights(keys) ==
  IF keys = {} THEN 0
  ELSE LET k == CHOOSE x \in keys : TRUE IN WeightOf(k) + SumWeights(keys \ {k})

\* The weighted items of a dict that are present, inquiry_url counted under
\* contact_email.
PresentItems(d) ==
  {k \in WeightedKeys \ {"inquiry_url"} :
     IF k = "contact_email" THEN Truthy(d[k]) \/ Truthy(d["inquiry_url"])
     ELSE Truthy(d[k])}

\* C8: the score is the sum of the weights of the present fields over 10
\* (here in twentieths), lies in [0, 1], and is strictly greater than before
\* when a weighted item that was absent has become present; a second member of
\* the contact pair adds nothing.
C8_ScoreIsWeightedSum ==
  (calc.op = "score" /\ calc.called) =>
     /\ calc.score = SumWeights(PresentItems(calc.data))
     /\ calc.score >= 0 /\ calc.score <= 20
     /\ calc.added # "none" =>
          IF /\ calc.added \in {"contact_email", "inquiry_url"}
             /\ \E o \in {"contact_email", "inquiry_url"} \ {calc.added} :
                  Truthy(calc.data[o])
          THEN calc.score = calc.prev
          ELSE calc.score = calc.prev + WeightOf(calc.added)

\* C8 witness: inquiry_url has been added to a dict that had neither contact
\* field, and the score has grown by one twentieth.
C8_Witness ==
  /\ calc.op = "score" /\ calc.called /\ calc.added = "inquiry_url"
  /\ ~Truthy(calc.data["contact_email"])
  /\ calc.score = calc.prev + 1

\* Two values of a key field agree up to letter case and surrounding
\* whitespace; an absent, None or blank component agrees with an empty one.
AgreeOn(x, y) ==
  (IF IsText(x) THEN Lower(Strip(x)) ELSE <<>>) = (IF IsText(y) THEN Lower(Strip(y)) ELSE <<>>)

KeyFields == {"name", "developer_name", "city", "country"}

\* C9: two records that agree on the four key fields up to letter case and
\* surrounding whitespace get the same key, and a key holds no upper-case
\* letter, no whitespace and no hyphen at either end.
C9_KeyIgnoresCaseAndSpace ==
  (calc.op = "key" /\ calc.called) =>
     /\ (\A k \in KeyFields : AgreeOn(calc.a[k], calc.b[k])) => calc.key_a = calc.key_b
     /\ \A i \in 1..Len(calc.key_a) : SlugAllowed(calc.key_a[i])
     /\ calc.key_a # <<>> => (Head(calc.key_a) # "-" /\ calc.key_a[Len(calc.key_a)] # "-")

\* C9 witness: two different records that agree up to case and whitespace, one
\* of them without the developer key, have got one non-empty key.
C9_Witness ==
  /\ calc.op = "key" /\ calc.called
  /\ calc.a["name"] = <<"A", " ">> /\ calc.b["name"] = <<" ", "a">>
  /\ calc.a["developer_name"] = <<"B", " ">> /\ calc.b["developer_name"] = <<"b">>
  /\ calc.a["city"] = calc.b["city"]
  /\ calc.key_a = calc.key_b /\ calc.key_a # <<>>

\* C11: a record whose store lookup fails in the dedupe stage leaves that stage
\* as a failed record (DropItem) and never reaches the database stage, so that
\* nothing is written for it.
C11_LookupFailureFailsRecord ==
  [][(pc = "dedupe" /\ last'.warning)
     => (last'.result = "DropItem" /\ pc' = "done" /\ store' = store)]_vars

\* C12: a record dropped as a duplicate of its run is not reported through the
\* dedupe stage's error path.
C12_DuplicateIsNotAnError ==
  (last.stage = "dedupe" /\ last.msg = "Duplicate project") => last.report # "error"

\* Whether a price text holds a digit or a configured currency symbol.
HasDigit(s) == \E i \in 1..Len(s) : s[i] \in Digits
HasCurrencySymbol(s) ==
  \E i \in 1..Len(CurrencySymbols) : IsSubstring(CurrencySymbols[i].symbol, s)

\* C13: _parse_price of a text that holds "request", no digit and no currency
\* symbol returns a triple with value None and note "Price on request".
C13_PriceOnRequestTriple ==
  (/\ calc.op = "price" /\ calc.called
   /\ IsSubstring(<<"r","e","q","u","e","s","t">>, Lower(calc.text))
   /\ ~HasDigit(calc.text) /\ ~HasCurrencySymbol(calc.text))
  => (/\ calc.result.found
      /\ calc.result.value = None
      /\ calc.result.note = NotePriceOnRequest)

NumericUnitFields == {"size_sqft", "size_sqm", "bedrooms", "bathrooms", "price_local_value"}

IsUnset(v) == v = None \/ v = Missing

\* C14: after _clean_unit every numeric field is a number or unset.
C14_ParsedFieldsNumberOrUnset ==
  (calc.op = "unit" /\ calc.called) =>
     \A k \in NumericUnitFields : IsNum(calc.cleaned[k]) \/ IsUnset(calc.cleaned[k])

\* C15: no stored unit holds a negative number in bedrooms, bathrooms,
\* size_sqft, size_sqm or price_local_value.
C15_StoredNumbersNonNegative ==
  \A i \in 1..Len(store.units) : \A k \in NumericUnitFields :
     IsNum(store.units[i].data[k]) => store.units[i].data[k][2] >= 0

\* The table entries whose keyword, lower-cased, occurs in the lower-cased and
\* trimmed text.
StatusMatches(text) ==
  {i \in 1..Len(StatusMappings) :
     IsSubstring(Lower(StatusMappings[i].key), Strip(Lower(text)))}

\* C16: _normalize_status returns the canonical status of the matching entry
\* that no matching entry precedes in the table, and "unknown" when the text is
\* empty or no entry matches.
C16_FirstTableEntryWins ==
  (calc.op = "status" /\ calc.called) =>
     /\ \A i \in StatusMatches(calc.text) :
          (\A j \in StatusMatches(calc.text) : i <= j)
            => calc.result = StatusMappings[i].value
     /\ (calc.text = <<>> \/ StatusMatches(calc.text) = {}) => calc.result = <<"unknown">>

\* C16 witness: a text that holds "completed" before "pre-construction" is
\* planned, the status of the entry that the table lists first.
C16_Witness ==
  /\ calc.op = "status" /\ calc.called
  /\ calc.text = <<"C","o","m","p","l","e","t","e","d">> \o <<" ">> \o <<"P","r","e","-","C","o","n","s","t","r","u","c","t","i","o","n">>
  /\ calc.result = <<"planned">>

\* C17: cleaning a cleaned text changes nothing, for the pipeline's cleaner
\* and for the spiders' entity-removing cleaner, and an empty or None text
\* gives the empty text.
C17_CleaningIsIdempotent ==
  (calc.op = "text" /\ calc.called) =>
     /\ calc.pipeline_twice = calc.pipeline_once
     /\ calc.html_twice = calc.html_once
     /\ (calc.text = <<>> \/ calc.text = None)
          => (calc.pipeline_once = <<>> /\ calc.html_once = <<>>)

\* The amenities of a list that pass the validity predicate.
RECURSIVE CountValid(_)
CountValid(amenities) ==
  IF amenities = <<>> THEN 0
  ELSE (IF IsValidAmenity(Head(amenities)) THEN 1 ELSE 0) + CountValid(Tail(amenities))

\* C18: every stored amenity passes the validity predicate, and the database
\* stage counts in amenities_created only the valid amenities of the record.
C18_OnlyValidAmenitiesStored ==
  /\ [](\A i \in 1..Len(store.amenities) : IsValidAmenity(store.amenities[i].data))
  /\ [][(pc = "database" /\ last'.result = "return")
        => stats'.amenities_created - stats.amenities_created
             = CountValid(item.amenities)]_vars

\* C19: when both workers have finished a record with the same canonical key,
\* the store holds at most one parent with that key.
C19_WorkersLeaveOneParent ==
  (/\ calc.op = "workers"
   /\ \A w \in Workers : calc.of[w].pc = "done"
   /\ GenerateProjectKey(calc.of[1].item.project)
        = GenerateProjectKey(calc.of[2].item.project))
  => Cardinality(SameKeyParents(calc.of[1].item.project)) <= 1

\* The stored parents that the filters of upsert_project's lookup select for
\* the dict d.
UpsertMatches(d) ==
  MatchingProjects(store.projects, d["name"], GetOrEmpty(d, "developer_name"),
                   GetOrEmpty(d, "city"), GetOrEmpty(d, "country"), Get(d, "website_url"))

\* C20: upsert_project called with fields that match a stored parent writes
\* the non-None incoming fields to that parent, adds no parent and returns it
\* with its id; called with fields that match none it adds exactly one parent
\* and returns it with a new id.
C20_UpsertInsertsOrUpdates ==
  [][(calc.op = "upsert" /\ calc'.calls = calc.calls + 1) =>
       LET d == calc'.data IN
       IF UpsertMatches(d) # {}
       THEN /\ ~calc'.raised
            /\ calc'.id \in UpsertMatches(d)
            /\ Len(store'.projects) = Len(store.projects)
            /\ \A c \in ModelColumns :
                 store'.projects[calc'.id].f[c]
                   = (IF d[c] = None \/ d[c] = Missing
                      THEN store.projects[calc'.id].f[c] ELSE d[c])
       ELSE /\ ~calc'.raised
            /\ Len(store'.projects) = Len(store.projects) + 1
            /\ calc'.id = Len(store'.projects)
            /\ \A i \in 1..Len(store.projects) : store'.projects[i] = store.projects[i]]_vars

\* C21: a child-append call that fails at any of its steps raises and leaves
\* every table as it was; a call that does not fail appends all its elements,
\* in order, under the parent id, and leaves the other tables as they were.
C21_AppendAllOrNothing ==
  [][(calc.op = "append" /\ calc'.calls = calc.calls + 1) =>
       IF calc'.k # 0
       THEN calc'.raised /\ store' = store
       ELSE /\ ~calc'.raised
            /\ Len(store'[calc'.kind]) = Len(store[calc'.kind]) + Len(calc'.data)
            /\ \A i \in 1..Len(store[calc'.kind]) :
                 store'[calc'.kind][i] = store[calc'.kind][i]
            /\ \A i \in 1..Len(calc'.data) :
                 store'[calc'.kind][Len(store[calc'.kind]) + i]
                   = [project_id |-> 1, data |-> calc'.data[i]]
            /\ \A t \in ChildTables \ {calc'.kind} : store'[t] = store[t]
            /\ store'.projects = store.projects]_vars

\* C21 witness: add_units has failed at the third of three units, after an
\* earlier call had stored units, and the units table holds those only.
C21_Witness ==
  /\ calc.op = "append" /\ calc.kind = "units" /\ calc.k = 3 /\ Len(calc.data) = 3
  /\ calc.raised
  /\ Len(store.units) = 1

(* C22 *)

\* The ids of the parents in a store.
ParentIds(st) == { st.projects[i].id : i \in 1..Len(st.projects) }

\* Every row of table `old` is still in `new`, at its place.
RowsKept(old, new) ==
  /\ Len(old) <= Len(new)
  /\ \A i \in 1..Len(old) : new[i] = old[i]

\* Every child row of a store references the id of a parent in it.
ChildrenHaveParents(st) ==
  \A kind \in ChildTables : \A i \in 1..Len(st[kind]) :
      st[kind][i].project_id \in ParentIds(st)

\* C22: no step of the three stages deletes a parent or a child row: the set
\* of parent ids only grows, every child row stays in its table, and after the
\* step every unit, amenity, media link and source row references the id of
\* a parent in the store.
C22_NothingDeletedChildrenHaveParents ==
  [][ /\ ParentIds(store) \subseteq ParentIds(store')
      /\ Len(store.projects) <= Len(store'.projects)
      /\ \A kind \in ChildTables : RowsKept(store[kind], store'[kind])
      /\ ChildrenHaveParents(store') ]_vars

\* Two records have been through the database stage, the second on the update
\* branch, and the children of both are in the store under the one parent.
C22_Witness ==
  /\ pc = "done"
  /\ last.stage = "database"
  /\ item._is_update
  /\ Len(store.projects) = 1
  /\ Len(store.units) = 2
  /\ Len(store.sources) = 2
  /\ ChildrenHaveParents(store)

(* C23 *)

\* C23: _parse_price of a number gives {value, "USD", none}.  On a text: if
\* it contains "from" in any case the note is "From" and a parsed value is
\* kept, also when the text contains "request" or "contact"; otherwise, if
\* it contains "request" or "contact", the note is "Price on request" and the
\* value is none even if digits were parsed; and the currency is "USD"
\* whenever a number is found and no configured symbol matched.
C23_NotePriorityAndDefaultCurrency ==
  /\ (calc.op = "amount" /\ calc.called) =>
        calc.result = [found |-> TRUE, value |-> calc.text, currency |-> USD,
                       note |-> None]
  /\ (calc.op = "price" /\ calc.called /\ calc.text # <<>>) =>
        LET lower == Lower(calc.text)
            has_from == IsSubstring(<<"f","r","o","m">>, lower)
            asks == \/ IsSubstring(<<"r","e","q","u","e","s","t">>, lower)
                    \/ IsSubstring(<<"c","o","n","t","a","c","t">>, lower)
        IN  /\ has_from =>
                  /\ calc.result.note = NoteFrom
                  /\ HasDigit(calc.text) => IsNum(calc.result.value)
            /\ (~has_from /\ asks) =>
                  /\ calc.result.note = NotePriceOnRequest
                  /\ calc.result.value = None
            /\ (HasDigit(calc.text) /\ ~HasCurrencySymbol(calc.text)) =>
                  calc.result.currency = USD

(* C24 *)

\* What the claim says becomes of an amenity text.
AmenityFate(a) ==
  IF ~IsValidAmenity(a) THEN "deleted"
  ELSE IF ~ContainsHtml(a) THEN "kept"
  ELSE IF IsValidAmenity(StripHtml(a)) THEN "replaced" ELSE "deleted"

RowsUnder(p, data) == [i \in 1..Len(data) |-> [project_id |-> p, data |-> data[i]]]

\* C26: a record that the database stage returns has had every unit, amenity,
\* media link and its source appended under one parent id, on the new and on
\* the existing branch, whatever rows the tables held already; and that
\* parent is the only one with the record's canonical key, so that n runs of
\* the same record leave one parent with n copies of each child row.
C26_ChildrenAppendedUnderOneParent ==
  [][ (pc = "database" /\ last'.result = "return") =>
        \E p \in ParentIds(store') :
          /\ store'.units = store.units \o RowsUnder(p, item.units)
          /\ store'.amenities = store.amenities \o RowsUnder(p, item.amenities)
          /\ store'.media_links = store.media_links \o RowsUnder(p, item.media_links)
          /\ store'.sources = store.sources \o RowsUnder(p, item.source)
          /\ \A i \in 1..Len(store'.projects) :
                RowKey(store'.projects[i]) = GenerateProjectKey(item.project)
                  => store'.projects[i].id = p ]_vars

(* C27 *)

\* A record has just been dropped as a duplicate of this run.
DroppedAsDuplicate == pc = "done" /\ last.stage = "dedupe" /\ last.msg = "Duplicate project"

\* C27 as stated: whenever a record is dropped as an in-run duplicate a parent
\* with its canonical key is in the store, and outside a record's own database
\* stage every key of the processed-key set is the key of a stored parent.
C27_DuplicateDropMeansParentStored ==
  /\ DroppedAsDuplicate => SameKeyParents(item.project) # {}
  /\ pc # "database" =>
        \A key \in processed_keys :
           \E i \in 1..Len(store.projects) : RowKey(store.projects[i]) = key

\* C27 as amended: a key enters the processed-key set when its record passes
\* the dedupe stage, and the database stage never takes it out, whether the
\* parent write succeeds or not; a record dropped as an in-run duplicate
\* follows a record of this run with its key that passed the dedupe stage;
\* and a record whose key is in the set is dropped as a duplicate, also when
\* no parent with that key is in the store.
C27_KeyEntersAtDedupeStage ==
  /\ [](DroppedAsDuplicate => PassedBefore(GenerateProjectKey(item.project)))
  /\ [][ /\ (pc = "dedupe" /\ pc' = "database") =>
               processed_keys' = processed_keys \cup {GenerateProjectKey(item.project)}
         /\ (pc = "dedupe" /\ pc' = "done") => processed_keys' = processed_keys
         /\ pc = "database" => processed_keys' = processed_keys
         /\ (pc = "dedupe" /\ GenerateProjectKey(item.project) \in processed_keys) =>
               (last'.msg = "Duplicate project" /\ pc' = "done" /\ store' = store) ]_vars

\* The first record of a run with a key failed in the database stage, and the
\* next record with that key has been dropped as a duplicate: no parent with
\* the key is in the store.
C27_Witness ==
  /\ DroppedAsDuplicate
  /\ SameKeyParents(item.project) = {}
  /\ store.projects = <<>>

(* C28 *)

IsNull(v) == v = None \/ v = Missing

\* C28: clean_project_data_for_db of a dict that carries both 'email' and
\* 'contact_email' gives a non-null contact_email whenever one of the two is
\* non-null; 'email', 'phone' and every other key outside the model's fields
\* are removed; every other field is passed through unchanged.
C28_ContactEmailNeverLost ==
  (calc.op = "dbclean" /\ calc.called) =>
     LET d == calc.project_data
         r == calc.cleaned_data
     IN  /\ (/\ d["email"] # Missing /\ d["contact_email"] # Missing
              /\ (~IsNull(d["email"]) \/ ~IsNull(d["contact_email"])))
               => ~IsNull(r["contact_email"])
         /\ \A k \in ProjectKeys \ ModelColumns : r[k] = Missing
         /\ \A k \in ModelColumns \ {"contact_email"} : r[k] = d[k]

(* C29 *)

\* C29: _clean_unit of a unit whose price_local_value is a number leaves the
\* unit's price_local_currency and price_note as they were given (text
\* cleaning apart): only a price given as text sets them; and the fields
\* other than the size, price, bedroom and bathroom fields are changed by
\* text cleaning only.
C29_NumericPriceKeepsCurrencyAndNote ==
  (calc.op = "unit" /\ calc.called) =>
     LET u == calc.unit
         c == calc.cleaned
     IN  /\ ~IsText(u["price_local_value"]) =>
               \A k \in {"price_local_currency", "price_note"} :
                  IsText(u[k]) => c[k] = CleanValue(u[k])
         /\ c["unit_name"] = CleanValue(u["unit_name"])

(* C30 *)

\* C30: in a run of a Tier-B spider neither the project pages requested nor
\* the items yielded exceed max_projects, in whatever order the parse and
\* parse_project_page callbacks are delivered.
C30_AtMostMaxProjects ==
  calc.op = "spider" =>
     /\ calc.requested <= calc.max_projects
     /\ calc.yielded <= calc.max_projects

====
